---------------------------- MODULE Spec2Model ----------------------------
(***************************************************************************)
(* A model of the pdfExtractor repository: the outline extractors          *)
(* (FastPDFHeadingExtractor in Challenge_1a/process_pdfs.py and in         *)
(* process_pdfs.py, PDFHeadingExtractor in pdf_heading_extractor.py), the  *)
(* persona analyzer of Challenge_1b/process_challenge1b.py, and the entry  *)
(* points that work on files (main.py, extract.py, process_pdfs()).        *)
(*                                                                         *)
(* Texts are TLA+ strings; TLC evaluates Len, \o and SubSeq on them, so    *)
(* the string operations of the Python source are modelled character by    *)
(* character.  Font sizes are whole points and a normalized Y position is  *)
(* the fraction [num, den] of a span's y0 and the page height; where the   *)
(* source compares or adds floats, the model computes the binary64 values  *)
(* of the operands (see the Float operators), so that a comparison against *)
(* a decimal constant comes out as it does in Python.  None is the empty   *)
(* tuple, a title string s is <<s>>.                                       *)
(***************************************************************************)
EXTENDS Integers, Sequences, FiniteSets, TLC

VARIABLES
    extractor,   \* outline pipeline: which extractor runs ("fast1a", "fastroot", "full")
    doc,         \* outline pipeline: what the PDF reader gives for the document
    pc,          \* outline pipeline: "start" before extract_headings, "done" after;
                 \* "title" while a title function is run on elements
    elements,    \* outline pipeline: the TextElements the span extractor returned
    result,      \* outline pipeline: what extract_headings returned
    classify_call,    \* level classifiers: the arguments of the call
    classify_result,  \* level classifiers: which classifier ran and what it returned
    persona_call,     \* persona analyzer: the method to call and its arguments
    persona_result,   \* persona analyzer: which method ran and what it returned
    collections,      \* batch driver: "Collection 1" to "Collection 3" on disk
    next_index,       \* batch driver: the collection the loop handles next
    outputs,          \* batch driver: the challenge1b_output.json of each collection
    failures,         \* batch driver: the collections reported as failed
    driver,           \* batch driver: "running", "done" or "crashed"
    heading_confidence_threshold,  \* PDFHeadingExtractor: the field of that name
    command,     \* entry points: which one runs, with its options
    pdf_files,   \* entry points: the PDF files the command works on
    file_index,  \* entry points: the file the loop handles next
    attempted,   \* entry points: the files extract_headings was called on, in order
    saved,       \* entry points: the JSON written for each file
    counts,      \* entry points: success_count and error_count of the batch command
    cli_state,   \* entry points: "start", "running", "rejected", "done" or "crashed"
                 \* (left by an exception or by sys.exit(1))
    titles       \* title extraction: the titles returned by the runs on one list

outline_vars == <<extractor, doc, pc, elements, result>>

classify_vars == <<classify_call, classify_result>>

persona_vars == <<persona_call, persona_result>>

batch_vars == <<collections, next_index, outputs, failures, driver>>

cli_vars == <<heading_confidence_threshold, command, pdf_files, file_index,
              attempted, saved, counts, cli_state>>

title_vars == <<titles>>

vars == <<outline_vars, classify_vars, persona_vars, batch_vars, cli_vars, title_vars>>

-----------------------------------------------------------------------------
(* Python str operations, character by character.                         *)

Char(s, i) == SubSeq(s, i, i)

\* the characters str.strip(), str.split() and \s of re take for white space:
\* space, tab, line feed, carriage return, form feed, then, written as the
\* characters themselves, U+000B, U+001C to U+001F, U+0085, U+00A0 and U+1680
\* (the white space from U+2000 on cannot stand in a string of this module)
WhitespaceChars ==
    {" ", "\t", "\n", "\r", "\f",
     "", "", "", "", "", "", " ", " "}

DigitChars == {"0", "1", "2", "3", "4", "5", "6", "7", "8", "9"}

UpperAlphabet == "ABCDEFGHIJKLMNOPQRSTUVWXYZ"

LowerAlphabet == "abcdefghijklmnopqrstuvwxyz"

UpperChars == {Char(UpperAlphabet, i) : i \in 1..26}

LowerChars == {Char(LowerAlphabet, i) : i \in 1..26}

\* the characters of the model that are no white space
AllCharsButWhitespace ==
    UpperChars \cup LowerChars \cup DigitChars \cup
    {"!", "\"", "#", "$", "%", "&", "'", "(", ")", "*", "+", ",", "-", ".", "/", ":", ";",
     "<", "=", ">", "?", "@", "[", "\\", "]", "^", "_", "{", "|", "}", "~"}

\* \w of the re module, on ASCII
WordChars == UpperChars \cup LowerChars \cup DigitChars \cup {"_"}

LowerOf == [c \in UpperChars |->
              Char(LowerAlphabet, CHOOSE i \in 1..26 : Char(UpperAlphabet, i) = c)]

lower_char(c) == IF c \in UpperChars THEN LowerOf[c] ELSE c

RECURSIVE lstrip(_)
lstrip(s) == IF s # "" /\ Char(s, 1) \in WhitespaceChars THEN lstrip(Tail(s)) ELSE s

RECURSIVE rstrip(_)
rstrip(s) == IF s # "" /\ Char(s, Len(s)) \in WhitespaceChars
             THEN rstrip(SubSeq(s, 1, Len(s) - 1)) ELSE s

\* str.strip()
strip(s) == rstrip(lstrip(s))

\* p in s
Contains(s, p) == \E i \in 1..(Len(s) - Len(p) + 1) : SubSeq(s, i, i + Len(p) - 1) = p

\* s.startswith(p)
startswith(s, p) == Len(p) <= Len(s) /\ SubSeq(s, 1, Len(p)) = p

\* s.endswith(p)
endswith(s, p) == Len(p) <= Len(s) /\ SubSeq(s, Len(s) - Len(p) + 1, Len(s)) = p

\* s.isdigit()
isdigit(s) == s # "" /\ \A i \in 1..Len(s) : Char(s, i) \in DigitChars

\* s.count(c) for a single character c
count_char(s, c) == Cardinality({i \in 1..Len(s) : Char(s, i) = c})

\* every character of the non-empty s is in the class cs: re.match(r'^[cs]+$', s)
AllIn(s, cs) == s # "" /\ \A i \in 1..Len(s) : Char(s, i) \in cs

\* the length of the longest prefix of s, from position i on, made of characters of cs
RECURSIVE RunLen(_, _, _)
RunLen(s, i, cs) == IF i <= Len(s) /\ Char(s, i) \in cs THEN 1 + RunLen(s, i + 1, cs) ELSE 0

None == <<>>

Some(s) == <<s>>

\* Python truthiness of an Optional[str]
Truthy(t) == t # None /\ t[1] # ""


\* the characters of the model in code-point order: the white space below the
\* space, the printable ASCII characters, the white space above them (a TLA+
\* string cannot hold the backquote, which no text of the model uses)
AsciiOrder == "\t\n\f\r !\"#$%&'()*+,-./0123456789:;<=>?@ABCDEFGHIJKLMNOPQRSTUVWXYZ[\\]^_abcdefghijklmnopqrstuvwxyz{|}~  "

\* the rank of c in that order: Ord(a) < Ord(b) iff ord(a) < ord(b)
Ord(c) == CHOOSE i \in 1..Len(AsciiOrder) : Char(AsciiOrder, i) = c

RECURSIVE StrLess(_, _)
\* a < b on Python strings (code-point lexicographic order)
StrLess(a, b) ==
    IF b = "" THEN FALSE
    ELSE IF a = "" THEN TRUE
    ELSE IF Char(a, 1) = Char(b, 1) THEN StrLess(Tail(a), Tail(b))
    ELSE Ord(Char(a, 1)) < Ord(Char(b, 1))

RECURSIVE join(_, _)
\* sep.join(parts), the two halves of the list joined
join(sep, parts) ==
    IF parts = <<>> THEN ""
    ELSE IF Len(parts) = 1 THEN parts[1]
    ELSE LET m == Len(parts) \div 2 IN
         join(sep, SubSeq(parts, 1, m)) \o sep \o join(sep, SubSeq(parts, m + 1, Len(parts)))

\* str.lower()
lower(s) == join("", [i \in 1..Len(s) |-> lower_char(Char(s, i))])

\* re.sub(r'\s+', ' ', s): one space for every run of white space
collapse_whitespace(s) ==
    join("", [i \in 1..Len(s) |->
                IF Char(s, i) \notin WhitespaceChars THEN Char(s, i)
                ELSE IF i > 1 /\ Char(s, i - 1) \in WhitespaceChars THEN ""
                ELSE " "])

-----------------------------------------------------------------------------
(* Python list operations.                                                 *)

\* the sequence with its elements computed, once
Tuple(s) == s \o <<>>

\* F(v), with v computed once
With(v, F(_)) == CHOOSE r \in {F(x) : x \in {v}} : TRUE

MapSeq(s, F(_)) == Tuple([i \in 1..Len(s) |-> F(s[i])])

RECURSIVE SumSeq(_)
SumSeq(s) == IF s = <<>> THEN 0 ELSE s[1] + SumSeq(Tail(s))

MaxOfSeq(s) == CHOOSE m \in {s[i] : i \in 1..Len(s)} : \A i \in 1..Len(s) : s[i] <= m

RECURSIVE Flatten(_)
Flatten(ss) == IF ss = <<>> THEN <<>> ELSE ss[1] \o Flatten(Tail(ss))

\* list.sort(key=...): stable; Less compares the keys (a strict weak order).
\* Element j comes before element i when its key is smaller, or when the keys
\* are equal and it came first.
SortStable(s, Less(_, _)) ==
    LET t == Tuple(s)
        n == Len(t)
        Before(j, i) == Less(t[j], t[i]) \/ (~Less(t[i], t[j]) /\ j < i)
        Rank == Tuple([i \in 1..n |-> 1 + Cardinality({j \in 1..n : j # i /\ Before(j, i)})])
    IN  Tuple([r \in 1..n |-> t[CHOOSE i \in 1..n : Rank[i] = r]])

\* sorted(numbers)
SortedInts(s) == SortStable(s, LAMBDA a, b : a < b)

(***************************************************************************)
(* Python lists as objects.  A store is [ref, obj]: obj is the sequence of *)
(* the list objects a call can reach, each a sequence of values, and ref   *)
(* gives for every variable name the index of the object the name is bound *)
(* to.  Two names with one index are two names of one list: what a method  *)
(* does to the list under one name is seen under the other.  Object 1 is   *)
(* the list the caller gave.  The elements of the lists are values: the    *)
(* functions modelled with a store assign to no attribute of an element.   *)
(***************************************************************************)

\* the store at the start of a call: the parameter is bound to the caller's list
CallStore(name, list) == [ref |-> [n \in {name} |-> 1], obj |-> <<list>>]

\* the list a name is bound to
ListOf(store, name) == store.obj[store.ref[name]]

\* a comprehension that made no list of its own and left its result in the
\* list the caller gave.  Not the program: the variant that shows what the
\* caller's list owes to the new lists.
FilteredInPlace(store, name, content) ==
    [ref |-> [n \in DOMAIN store.ref \cup {name} |->
                IF n = name THEN 1 ELSE store.ref[n]],
     obj |-> [store.obj EXCEPT ![1] = content]]

\* name = [e for e in ... if ...]: a list comprehension makes a new list
\* object and binds the name to it
NewList(store, name, content) ==
    [ref |-> [n \in DOMAIN store.ref \cup {name} |->
                IF n = name THEN Len(store.obj) + 1 ELSE store.ref[n]],
     obj |-> Append(store.obj, content)]

\* name.sort(key=...): the list the name is bound to is sorted in place
SortList(store, name, Less(_, _)) ==
    [store EXCEPT !.obj[store.ref[name]] = SortStable(@, Less)]

\* what a call gives: the value it returns and the caller's list as the call
\* leaves it
CallResult(value, store) == [title |-> value, elements |-> store.obj[1]]

-----------------------------------------------------------------------------
(***************************************************************************)
(* Python's float is the IEEE-754 binary64 number.  Natural numbers of any *)
(* size are the sequence of their digits in base 2^15, least significant   *)
(* first, without leading zeros; <<>> is 0.  Value({e : x \in {v}}) is e   *)
(* for x = v, with v computed once.                                        *)
(***************************************************************************)
LimbBase == 2^15

\* the element of a set of one element
Value(S) == CHOOSE r \in S : TRUE

\* digit i of a, 0 beyond its length
BigLimb(a, i) == IF i \in 1..Len(a) THEN a[i] ELSE 0

\* a without the zeros at its high end
BigTrim(a) ==
    Value({ SubSeq(v, 1, CHOOSE n \in 0..Len(v) : /\ n = 0 \/ v[n] # 0
                                                  /\ \A j \in (n + 1)..Len(v) : v[j] = 0)
            : v \in {Tuple(a)} })

\* the digits of n, for 0 <= n < 2^31
BigNat(n) ==
    BigTrim(<<n % LimbBase, (n \div LimbBase) % LimbBase, n \div (LimbBase * LimbBase)>>)

\* the value of a, for a below 2^31
BigInt(a) == BigLimb(a, 1) + LimbBase * (BigLimb(a, 2) + LimbBase * BigLimb(a, 3))

\* a + b.  s is the sequence of the sums of their digits; a carry enters digit
\* i when a digit below it overflows and every digit between the two passes a
\* carry on
BigAdd(a, b) ==
    Value({ BigTrim([i \in 1..(Len(s) + 1) |->
                        (BigLimb(s, i)
                         + (IF \E j \in 1..(i - 1) :
                                   /\ s[j] >= LimbBase
                                   /\ \A k \in (j + 1)..(i - 1) : s[k] >= LimbBase - 1
                            THEN 1 ELSE 0)) % LimbBase])
            : s \in {Tuple([i \in 1..(Len(p[1]) + Len(p[2])) |->
                               BigLimb(p[1], i) + BigLimb(p[2], i)]) : p \in {<<a, b>>}} })

\* a - b for a >= b.  s is the sequence of the differences of their digits;
\* digit i lends when a digit below it falls short and every digit between the
\* two passes the loan on
BigSub(a, b) ==
    Value({ BigTrim([i \in 1..Len(s) |->
                        (s[i]
                         - (IF \E j \in 1..(i - 1) :
                                   /\ s[j] < 0
                                   /\ \A k \in (j + 1)..(i - 1) : s[k] <= 0
                            THEN 1 ELSE 0)) % LimbBase])
            : s \in {Tuple([i \in 1..Len(p[1]) |-> p[1][i] - BigLimb(p[2], i)])
                     : p \in {<<a, b>>}} })

\* a * d for a digit d (or the base itself): the low halves of the products of
\* the digits, and their high halves one digit up
BigMulSmall(a, d) ==
    Value({ BigAdd([i \in 1..Len(v) |-> (v[i] * d) % LimbBase],
                   <<0>> \o [i \in 1..Len(v) |-> (v[i] * d) \div LimbBase])
            : v \in {a} })

\* a * (the number of b's digits from j on)
RECURSIVE BigMulFrom(_, _, _)
BigMulFrom(a, b, j) ==
    IF j > Len(b) THEN <<>>
    ELSE BigAdd(BigMulSmall(a, b[j]), <<0>> \o BigMulFrom(a, b, j + 1))

\* a * b
BigMul(a, b) == Value({ BigMulFrom(p[1], p[2], 1) : p \in {<<a, b>>} })

\* -1, 0 or 1 as a is below, equal to or above b
BigCmp(a, b) ==
    Value({ IF Len(p[1]) # Len(p[2]) THEN (IF Len(p[1]) < Len(p[2]) THEN -1 ELSE 1)
            ELSE IF p[1] = p[2] THEN 0
            ELSE Value({ IF p[1][i] < p[2][i] THEN -1 ELSE 1
                         : i \in {CHOOSE i \in 1..Len(p[1]) :
                                      /\ p[1][i] # p[2][i]
                                      /\ \A j \in (i + 1)..Len(p[1]) : p[1][j] = p[2][j]} })
            : p \in {<<a, b>>} })

\* the number of binary digits of a > 0
BigBits(a) ==
    Value({ 15 * (Len(v) - 1) + CHOOSE k \in 1..15 : v[Len(v)] \in (2^(k - 1))..(2^k - 1)
            : v \in {a} })

\* a * 2^k: k \div 15 whole digits and k % 15 binary digits up
BigShl(a, k) ==
    Value({ BigTrim([i \in 1..(Len(p[1]) + p[2] + 1) |->
                        ((BigLimb(p[1], i - p[2]) * p[3]) % LimbBase)
                        + ((BigLimb(p[1], i - p[2] - 1) * p[3]) \div LimbBase)])
            : p \in {<<a, k \div 15, 2^(k % 15)>>} })

\* a \div 2^k
BigShr(a, k) ==
    Value({ IF Len(p[1]) <= p[2] THEN <<>>
            ELSE BigTrim([i \in 1..(Len(p[1]) - p[2]) |->
                             (BigLimb(p[1], i + p[2]) \div p[3])
                             + ((BigLimb(p[1], i + p[2] + 1) % p[3]) * (LimbBase \div p[3]))])
            : p \in {<<a, k \div 15, 2^(k % 15)>>} })

\* the whole number nearest to (a + x) / 2^k for k > 0, where x is 0, or when
\* sticky is true a positive number below 1; of two nearest ones the even one
BigRoundShr(a, k, sticky) ==
    Value({ Value({ IF ~sticky /\ BigLimb(q, 1) % 2 = 1 /\ BigShl(q, k) = h
                    THEN [q EXCEPT ![1] = @ - 1]
                    ELSE q
                    : q \in {BigShr(h, k)} })
            : h \in {BigAdd(a, BigShl(<<1>>, k - 1))} })

\* the digit q with q * d <= r < (q + 1) * d, for r < d * LimbBase and a d whose
\* top digit is at least half the base: the top digits of r and d give it to
\* within 2
BigDigit(r, d) ==
    IF BigCmp(r, d) < 0 THEN 0
    ELSE Value({ CHOOSE q \in (est - 2)..est :
                     /\ q \in 0..(LimbBase - 1)
                     /\ BigCmp(BigMulSmall(d, q), r) <= 0
                     /\ BigCmp(BigMulSmall(d, q + 1), r) > 0
                 : est \in {(BigLimb(r, Len(d) + 1) * LimbBase + r[Len(d)]) \div d[Len(d)]} })

\* one step of long division by d.  acc is <<the quotient so far, the remainder
\* r so far>>, r < d; the digit n goes below r, the quotient gets its next
\* digit and what is left is the new remainder
BigDivStep(acc, n, d) ==
    Value({ Value({ <<<<q>> \o acc[1], BigSub(r1, BigMulSmall(d, q))>>
                    : q \in {BigDigit(r1, d)} })
            : r1 \in {BigTrim(<<n>> \o acc[2])} })

\* long division: the steps for the digits of n from digit i down
RECURSIVE BigDivFrom(_, _, _, _)
BigDivFrom(n, d, i, acc) ==
    IF i = 0 THEN acc
    ELSE Value({ BigDivFrom(n, d, i - 1, next) : next \in {BigDivStep(acc, n[i], d)} })

\* <<n \div d, n % d>> for a d whose top digit is at least half the base.  The
\* digits of n above digit i, one fewer than d has, are below d: the division
\* starts with them as the remainder
BigDivMod(n, d) ==
    Value({ Value({ Value({ <<BigTrim(qr[1]), qr[2]>>
                            : qr \in {BigDivFrom(p[1], p[2], i,
                                                 <<<<>>, SubSeq(p[1], i + 1, Len(p[1]))>>)} })
                    : i \in {IF Len(p[1]) < Len(p[2]) THEN 0 ELSE Len(p[1]) - Len(p[2]) + 1} })
            : p \in {<<n, d>>} })

(***************************************************************************)
(* A double is [neg, m, e], the number (-1)^neg * m * 2^e with             *)
(* 2^52 <= m < 2^53, or m = <<>> for zero.  Every operation gives the      *)
(* double nearest to the exact result, a tie going to the even mantissa,   *)
(* as the processor does.  Infinities, NaN and subnormal numbers do not    *)
(* occur for the magnitudes of the program (font sizes, positions, scores).*)
(***************************************************************************)
FloatZero == [neg |-> FALSE, m |-> <<>>, e |-> 0]

\* the double nearest to (n + x) * 2^e, x as in BigRoundShr
FloatRound(neg, n, e, sticky) ==
    Value({ IF v = <<>> THEN FloatZero
            ELSE Value({ IF k <= 0 THEN [neg |-> neg, m |-> BigShl(v, -k), e |-> e + k]
                         ELSE Value({ IF m = <<0, 0, 0, 256>>
                                      THEN [neg |-> neg, m |-> <<0, 0, 0, 128>>, e |-> e + k + 1]
                                      ELSE [neg |-> neg, m |-> m, e |-> e + k]
                                      : m \in {BigRoundShr(v, k, sticky)} })
                         : k \in {BigBits(v) - 53} })
            : v \in {n} })

\* float(n) for a whole number n
FloatInt(n) == FloatRound(n < 0, BigNat(IF n < 0 THEN -n ELSE n), 0, FALSE)

FloatOne == FloatInt(1)

\* -x
FloatNeg(x) == Value({ IF v.m = <<>> THEN v ELSE [v EXCEPT !.neg = ~@] : v \in {x} })

\* abs(x)
FloatAbs(x) == [x EXCEPT !.neg = FALSE]

\* -1, 0 or 1 as x < y, x == y or x > y: by the signs, then the exponents, then
\* the mantissas
FloatCmp(x, y) ==
    Value({ Value({ IF s[1] # s[2] THEN (IF s[1] < s[2] THEN -1 ELSE 1)
                    ELSE IF p[1].e # p[2].e THEN (IF p[1].e < p[2].e THEN -s[1] ELSE s[1])
                    ELSE s[1] * BigCmp(p[1].m, p[2].m)
                    : s \in {<<IF p[1].m = <<>> THEN 0 ELSE IF p[1].neg THEN -1 ELSE 1,
                               IF p[2].m = <<>> THEN 0 ELSE IF p[2].neg THEN -1 ELSE 1>>} })
            : p \in {<<x, y>>} })

\* x + y: the mantissas are brought to the lower exponent e and added or
\* subtracted, a[3] telling whether the sum has x's sign
FloatAdd(x, y) ==
    Value({ IF p[1].m = <<>> THEN p[2]
            ELSE IF p[2].m = <<>> THEN p[1]
            ELSE Value({ Value({ IF p[1].neg = p[2].neg
                                 THEN FloatRound(p[1].neg, BigAdd(a[1], a[2]), e, FALSE)
                                 ELSE IF a[3]
                                 THEN FloatRound(p[1].neg, BigSub(a[1], a[2]), e, FALSE)
                                 ELSE FloatRound(p[2].neg, BigSub(a[2], a[1]), e, FALSE)
                                 : a \in {Value({ <<b[1], b[2], BigCmp(b[1], b[2]) >= 0>>
                                                  : b \in {<<BigShl(p[1].m, p[1].e - e),
                                                             BigShl(p[2].m, p[2].e - e)>>} })} })
                         : e \in {IF p[1].e < p[2].e THEN p[1].e ELSE p[2].e} })
            : p \in {<<x, y>>} })

\* x - y
FloatSub(x, y) == FloatAdd(x, FloatNeg(y))

\* x * y
FloatMul(x, y) ==
    Value({ FloatRound(p[1].neg # p[2].neg, BigMul(p[1].m, p[2].m), p[1].e + p[2].e, FALSE)
            : p \in {<<x, y>>} })

\* the double nearest to (-1)^neg * (n / d) * 2^e for natural numbers n and
\* d > 0.  n is moved s[1] binary digits up, so that the quotient has 55 of
\* them or more, and what the division leaves over is sticky; both are moved
\* s[2] digits up for BigDivMod
FloatQuot(neg, n, d, e) ==
    Value({ IF p[1] = <<>> THEN FloatZero
            ELSE Value({ Value({ FloatRound(neg, qr[1], e - s[1], qr[2] # <<>>)
                                 : qr \in {BigDivMod(BigShl(p[1], s[1] + s[2]),
                                                     BigShl(p[2], s[2]))} })
                         : s \in {<<IF 55 + BigBits(p[2]) > BigBits(p[1])
                                    THEN 55 + BigBits(p[2]) - BigBits(p[1]) ELSE 0,
                                    (15 - (BigBits(p[2]) % 15)) % 15>>} })
            : p \in {<<n, d>>} })

\* x / y for y # 0
FloatDiv(x, y) ==
    Value({ FloatQuot(p[1].neg # p[2].neg, p[1].m, p[2].m, p[1].e - p[2].e)
            : p \in {<<x, y>>} })

\* a / b for whole numbers a and b # 0, and float(a) / float(b)
FloatRatio(a, b) ==
    FloatQuot((a < 0) # (b < 0), BigNat(IF a < 0 THEN -a ELSE a),
              BigNat(IF b < 0 THEN -b ELSE b), 0)

\* min(x, y)
FloatMin(x, y) == Value({ IF FloatCmp(p[2], p[1]) < 0 THEN p[2] ELSE p[1] : p \in {<<x, y>>} })

\* int(x), for x >= 0 below 2^31
FloatWhole(x) ==
    Value({ BigInt(IF v.e >= 0 THEN BigShl(v.m, v.e) ELSE BigShr(v.m, -v.e)) : v \in {x} })

\* round(x, 2) in hundredths: the whole number nearest to 100 * x, of two
\* nearest ones the even one
FloatHundredths(x) ==
    Value({ Value({ IF v.neg THEN -h ELSE h
                    : h \in {BigInt(IF v.e >= 0 THEN BigShl(BigMulSmall(v.m, 100), v.e)
                                    ELSE BigRoundShr(BigMulSmall(v.m, 100), -v.e, FALSE))} })
            : v \in {x} })

\* the double a decimal literal between 0.0 and 1.0 of at most three places
\* denotes, by its thousandths: DecimalFloat[400] is 0.4
DecimalFloat == [t \in 0..1000 |-> FloatRatio(t, 1000)]

\* the double of a threshold given in thousandths, as float() reads it from
\* the command line
ThresholdFloat(t) == IF t \in DOMAIN DecimalFloat THEN DecimalFloat[t] ELSE FloatRatio(t, 1000)

-----------------------------------------------------------------------------
(* The PDF reader (PyMuPDF), as the extractors see it.  A document is      *)
(* [open_ok, pages]: fitz.open raises when open_ok is false; a page is     *)
(* [ok, height, spans]: page.get_text raises when ok is false; a span is   *)
(* [text, size, font, flags, bbox], bbox = <<x0, y0, x1, y1>>.  Sizes,      *)
(* coordinates and page heights are whole numbers of points, and a page    *)
(* height is positive.                                                     *)

max_pages == 50

Min(a, b) == IF a <= b THEN a ELSE b

Abs(a) == IF a < 0 THEN -a ELSE a

\* span["flags"] & 2**4
HasBoldFlag(flags) == (flags \div 16) % 2 = 1

\* the sign of a comparison the program makes between doubles.  exact is the
\* difference of the two sides as the fractions they stand for, scaled to a
\* whole number.  When it is not 0 the sides are fractions of small whole
\* numbers that differ by far more than the few roundings behind them can
\* move them, and their doubles compare the same way; when it is 0 the
\* roundings decide, and doubles is the comparison of the doubles themselves
FloatSign(exact, doubles) ==
    IF exact > 0 THEN 1 ELSE IF exact < 0 THEN -1 ELSE doubles

\* bbox[1] / page_height: the double nearest to the fraction [num, den].  The
\* division rounds once, so that two positions, or a position and a decimal
\* literal, compare as their fractions do
NormalizedY(span, page) == [num |-> span.bbox[2], den |-> page.height]

PositionFloat(y) == FloatRatio(y.num, y.den)

\* y1 < y2 for two positions
PositionLess(y1, y2) == y1.num * y2.den < y2.num * y1.den

\* y1 == y2 for two positions
PositionEqual(y1, y2) == y1.num * y2.den = y2.num * y1.den

\* y < num/den for a position and a decimal literal
PositionBelow(y, num, den) == y.num * den < num * y.den

\* abs(y1 - y2) against the decimal literal num/den: -1, 0 or 1
PositionGapCmp(y1, y2, num, den) ==
    FloatSign(Abs(y1.num * y2.den - y2.num * y1.den) * den - num * y1.den * y2.den,
              FloatCmp(FloatAbs(FloatSub(PositionFloat(y1), PositionFloat(y2))),
                       FloatRatio(num, den)))

\* size against max_size * num/den for a decimal literal: -1, 0 or 1
SizeScaledCmp(size, max_size, num, den) ==
    FloatSign(size * den - max_size * num,
              FloatCmp(FloatInt(size), FloatMul(FloatInt(max_size), FloatRatio(num, den))))

\* sum(font_sizes) / len(font_sizes) as a double, for the fraction [num, den]
AverageFloat(avg_size) == FloatRatio(avg_size.num, avg_size.den)

\* font_size / avg_size against the decimal literal num/den: -1, 0 or 1
SizeRatioCmp(font_size, avg_size, num, den) ==
    FloatSign(font_size * avg_size.den * den - num * avg_size.num,
              FloatCmp(FloatDiv(FloatInt(font_size), AverageFloat(avg_size)),
                       FloatRatio(num, den)))

\* font_size against avg_size * num/den for a decimal literal: -1, 0 or 1
SizeAverageCmp(font_size, avg_size, num, den) ==
    FloatSign(font_size * avg_size.den * den - num * avg_size.num,
              FloatCmp(FloatInt(font_size),
                       FloatMul(AverageFloat(avg_size), FloatRatio(num, den))))

\* int(n * num/den) for a decimal literal: the whole part of the double product,
\* which is that of the fraction unless the fraction is whole
ScaledWhole(n, num, den) ==
    IF (n * num) % den # 0 THEN (n * num) \div den
    ELSE FloatWhole(FloatMul(FloatInt(n), FloatRatio(num, den)))

\* Challenge_1a/process_pdfs.py and process_pdfs.py, lines 112-133: one span
FastSpanElements(span, page, page_num) ==
    LET text == strip(span.text) IN
    IF Len(text) < 3 \/ Len(text) > 200 THEN <<>>
    ELSE << [ text        |-> text,
              font        |-> [ size    |-> span.size,
                                name    |-> span.font,
                                is_bold |-> Contains(span.font, "Bold") \/ HasBoldFlag(span.flags),
                                bbox    |-> span.bbox ],
              page_number |-> page_num,
              position_y  |-> NormalizedY(span, page) ] >>

FastPageElements(page, page_num) ==
    Flatten([i \in 1..Len(page.spans) |-> FastSpanElements(page.spans[i], page, page_num)])

\* _extract_text_fast: no handler of its own, so a reader error leaves it
extract_text_fast(d) ==
    IF ~d.open_ok THEN [raised |-> TRUE, elements |-> <<>>]
    ELSE LET total_pages == Min(Len(d.pages), max_pages) IN
         IF \E p \in 1..total_pages : ~d.pages[p].ok
         THEN [raised |-> TRUE, elements |-> <<>>]
         ELSE [raised |-> FALSE,
               elements |-> Flatten([p \in 1..total_pages |-> FastPageElements(d.pages[p], p)])]

-----------------------------------------------------------------------------
(* FastPDFHeadingExtractor of Challenge_1a/process_pdfs.py.  An average    *)
(* font size is the fraction [num, den] (sum of the sizes, their number).  *)

\* re.match(r'^\d+\.\s+\w', s)
MatchesNumberedWord(s) ==
    LET d == RunLen(s, 1, DigitChars)
        w == RunLen(s, d + 2, WhitespaceChars)
    IN  /\ d >= 1
        /\ d + 1 <= Len(s) /\ Char(s, d + 1) = "."
        /\ w >= 1
        /\ d + 2 + w <= Len(s) /\ Char(s, d + 2 + w) \in WordChars

\* re.match(r'^[A-Z]{1,3}$', s)
MatchesShortCaps(s) == Len(s) <= 3 /\ AllIn(s, UpperChars)

TitleStopWords == {"march", "2003", "21,", "working", "together"}

RfpTitle == "RFP:Request for Proposal To Present a Proposal for Developing the Business Plan for the Ontario Digital Library  "

\* lines 148-155: the page-1 elements that may be part of the title
IsTitleCandidate1a(e, max_first_page_size) ==
    /\ SizeScaledCmp(e.font.size, max_first_page_size, 9, 10) >= 0
    /\ PositionBelow(e.position_y, 4, 10)
    /\ Len(strip(e.text)) > 2
    /\ ~isdigit(strip(e.text))
    /\ lower(strip(e.text)) \notin TitleStopWords

\* the key of line 161: (position_y, bbox[0])
TitleOrderLess(a, b) ==
    \/ PositionLess(a.position_y, b.position_y)
    \/ PositionEqual(a.position_y, b.position_y) /\ a.font.bbox[1] < b.font.bbox[1]

RECURSIVE title_lines_loop(_, _, _, _)
\* lines 173-197: the candidates grouped into lines; last_y is None or <<y>>
title_lines_loop(cands, title_lines, current_line, last_y) ==
    IF cands = <<>>
    THEN IF current_line # <<>> THEN Append(title_lines, join(" ", current_line))
         ELSE title_lines
    ELSE LET candidate == cands[1]
             text == strip(candidate.text)
         IN IF lower(text) \in {"working", "together", "march", "2003", "21,"} \/ Len(text) < 2
            THEN title_lines_loop(Tail(cands), title_lines, current_line, last_y)
            ELSE IF last_y # None /\ PositionGapCmp(candidate.position_y, last_y[1], 3, 100) > 0
            THEN title_lines_loop(Tail(cands),
                                  IF current_line # <<>>
                                  THEN Append(title_lines, join(" ", current_line))
                                  ELSE title_lines,
                                  <<text>>, <<candidate.position_y>>)
            ELSE title_lines_loop(Tail(cands), title_lines, Append(current_line, text),
                                  <<candidate.position_y>>)

\* lines 163-211: the title made of the sorted candidates
title_of_candidates_1a(title_candidates) ==
    LET text_parts == MapSeq(title_candidates, LAMBDA e : strip(e.text)) IN
    IF \E i \in 1..Min(Len(text_parts), 10) :
           \/ Contains(text_parts[i], "RFP")
           \/ Contains(text_parts[i], "quest")
           \/ Contains(text_parts[i], "Pr")
    THEN Some(RfpTitle)
    ELSE
    LET title_lines == title_lines_loop(title_candidates, <<>>, <<>>, None) IN
    IF title_lines = <<>> THEN None
    ELSE LET full_title == strip(collapse_whitespace(join(" ", title_lines))) IN
         IF Len(full_title) > 10 THEN Some(full_title \o "  ") ELSE None

\* _extract_title_fast, statement by statement on the store (max_size is not
\* read): first_page (line 140) and title_candidates (lines 148-155) are list
\* comprehensions, line 161 sorts title_candidates
run_title_fast_1a(elems, max_size) ==
    LET s0 == CallStore("elements", elems)
        s1 == NewList(s0, "first_page",
                      SelectSeq(ListOf(s0, "elements"), LAMBDA e : e.page_number = 1))
        first_page == ListOf(s1, "first_page")
    IN
    IF first_page = <<>> THEN CallResult(None, s1)
    ELSE
    LET max_first_page_size == MaxOfSeq(MapSeq(first_page, LAMBDA e : e.font.size))
        s2 == NewList(s1, "title_candidates",
                      SelectSeq(first_page,
                                LAMBDA e : IsTitleCandidate1a(e, max_first_page_size)))
    IN
    IF ListOf(s2, "title_candidates") = <<>> THEN CallResult(None, s2)
    ELSE LET s3 == SortList(s2, "title_candidates", TitleOrderLess) IN
         CallResult(title_of_candidates_1a(ListOf(s3, "title_candidates")), s3)

\* _extract_title_fast: the value returned
extract_title_fast_1a(elems, max_size) == run_title_fast_1a(elems, max_size).title

H1Patterns1a == {
    "ontario's digital library",
    "a critical component for implementing ontario's road map to prosperity strategy",
    "appendix a: odl envisioned phases",
    "appendix b: odl steering committee",
    "appendix c: odl's envisioned electronic resources" }

H2Patterns1a == {
    "summary", "background", "the business plan to be developed",
    "approach and specific proposal requirements",
    "evaluation and awarding of contract",
    "appendix a:", "appendix b:", "appendix c:" }

H3Patterns1a == {
    "timeline:", "milestones", "equitable access for all ontarians:",
    "shared decision-making and accountability:", "shared governance structure:",
    "shared funding:", "local points of entry:", "access:", "guidance and advice:",
    "training:", "provincial purchasing & licensing:", "technological support:",
    "what could the odl really mean?", "phase i: business planning",
    "phase ii: implementing and transitioning",
    "phase iii: operating and growing the odl" }

H4Patterns1a == {
    "for each ontario citizen it could mean:",
    "for each ontario student it could mean:",
    "for each ontario library it could mean:",
    "for the ontario government it could mean:" }

\* any(pattern in text for pattern in patterns)
ContainsAny(text, patterns) == \E p \in patterns : Contains(text, p)

\* lines 284-349: the level the literal and pattern rules give, 0 when none applies
PatternLevelImproved(text) ==
    LET text_strip == lower(strip(text))
        text_orig == strip(text)
    IN  IF ContainsAny(text_strip, H1Patterns1a) THEN 1
        ELSE IF ContainsAny(text_strip, H2Patterns1a) THEN 2
        ELSE IF \/ MatchesNumberedWord(text_orig)
                \/ ContainsAny(text_strip, H3Patterns1a)
                \/ endswith(text_orig, ":") /\ Len(text_orig) > 10 /\ Len(text_orig) < 80
             THEN 3
        ELSE IF ContainsAny(text_strip, H4Patterns1a) THEN 4
        ELSE 0

\* lines 351-362: size_ratio = font_size / avg_size against 1.3, 1.2 and 1.1
SizeLevelImproved(text, font_size, avg_size, size_75th, size_90th, is_bold) ==
    IF font_size >= size_90th /\ SizeRatioCmp(font_size, avg_size, 13, 10) > 0 THEN 1
    ELSE IF /\ font_size >= size_75th
            /\ SizeRatioCmp(font_size, avg_size, 12, 10) > 0
            /\ is_bold
         THEN 2
    ELSE IF /\ is_bold
            /\ SizeRatioCmp(font_size, avg_size, 11, 10) > 0
            /\ Len(strip(text)) < 100
         THEN 3
    ELSE 0

\* _classify_heading_level_improved
classify_heading_level_improved(text, font_size, avg_size, size_75th, size_90th, is_bold) ==
    IF PatternLevelImproved(text) > 0 THEN PatternLevelImproved(text)
    ELSE SizeLevelImproved(text, font_size, avg_size, size_75th, size_90th, is_bold)

\* font_size / avg_size raises ZeroDivisionError: only when no pattern rule returned
classify_improved_raises(text, avg_size) ==
    PatternLevelImproved(text) = 0 /\ avg_size.num = 0

ExcludeFragments == {
    "rfp: r", "rfp: reeeequest f", "quest foooor pr", "r pr", "r proposal",
    "march 21, 2003", "march 2003", "ontario's libraries", "working together",
    "digital library", "to present a proposal for developing",
    "the business plan for the ontario", "oposal", "quest f" }

FormVocabulary == {"application", "form", "grant"}

\* is_form_like without the share of short elements.  Not the program: the
\* variant that shows what the form guard owes to that share.
IsFormLikeByTitle(elems, title) ==
    ContainsAny(lower(IF title = None THEN "" ELSE title[1]), FormVocabulary)

\* lines 218-220: is_form_like
IsFormLike(elems, title) ==
    LET short_elements == SelectSeq(elems, LAMBDA e : Len(strip(e.text)) < 15) IN
    \/ elems # <<>> /\ Len(short_elements) * 10 > 4 * Len(elems)
    \/ ContainsAny(lower(IF title = None THEN "" ELSE title[1]), FormVocabulary)

\* lines 243-244 without the comparison with the title.  Not the program: the
\* variant that shows what keeps the title out of the outline.
IsExcludedFragment(text_lower, title) == text_lower \in ExcludeFragments

\* lines 243-244: part of the title, or a fragment of the sample document
IsTitlePart(text_lower, title) ==
    \/ Truthy(title) /\ (\/ Contains(lower(title[1]), text_lower)
                         \/ Contains(text_lower, lower(title[1])))
    \/ text_lower \in ExcludeFragments

\* line 252: a text that ends in a period, unless it starts with "1.", "2."
\* or "3."
RejectedByPeriodRule(text) ==
    endswith(text, ".") /\ ~endswith(text, ": ")
        /\ ~(startswith(text, "1.") \/ startswith(text, "2.") \/ startswith(text, "3."))

\* lines 248-254: the texts that are no heading whatever their font
IsFilteredText(text) ==
    \/ Len(text) < 4 \/ Len(text) > 150
    \/ isdigit(text)
    \/ count_char(text, " ") > 15
    \/ RejectedByPeriodRule(text)
    \/ AllIn(text, LowerChars \cup WhitespaceChars)
    \/ AllIn(text, DigitChars \cup WhitespaceChars \cup {"-", "."})
    \/ MatchesShortCaps(text)

\* the key of lines 271 and 227: (h.text.lower().strip(), h.page)
HeadingKey(h) == <<strip(lower(h.text)), h.page>>

\* lines 268-274 without the test of seen.  Not the program: the variant that
\* shows what the uniqueness of the outline owes to that test.
keep_all_headings(headings, seen) == headings

RECURSIVE unique_headings_loop(_, _)
\* lines 268-274: the first heading of every key, in list order
unique_headings_loop(headings, seen) ==
    IF headings = <<>> THEN <<>>
    ELSE IF HeadingKey(headings[1]) \notin seen
         THEN <<headings[1]>> \o unique_headings_loop(Tail(headings),
                                                      seen \cup {HeadingKey(headings[1])})
         ELSE unique_headings_loop(Tail(headings), seen)

\* a sort by the page alone.  Not the program: the variant that shows what
\* the order of the outline owes to the rest of the key.
OutlineOrderByPage(a, b) == a.page < b.page

\* the key of line 277: (x.page, len(x.text), x.text)
OutlineOrderLess1a(a, b) ==
    \/ a.page < b.page
    \/ a.page = b.page /\ Len(a.text) < Len(b.text)
    \/ a.page = b.page /\ Len(a.text) = Len(b.text) /\ StrLess(a.text, b.text)

\* the entry one place below that of lines 227-228.  Not the program: the
\* variant that shows what the thresholds owe to the index.
SizeBelowPercentile(font_sizes, num, den) ==
    SortedInts(font_sizes)[IF (Len(font_sizes) * num) \div den = 0 THEN 1
                           ELSE (Len(font_sizes) * num) \div den]

\* sorted(font_sizes)[int(len(font_sizes) * q)] for q = num/den
SizePercentile(font_sizes, num, den) ==
    SortedInts(font_sizes)[ScaledWhole(Len(font_sizes), num, den) + 1]

\* lines 238-265: the heading one element gives, if any
ElementHeadings1a(element, avg_size, size_75th, size_90th, title) ==
    LET text == strip(element.text)
        level == classify_heading_level_improved(text, element.font.size, avg_size,
                                                 size_75th, size_90th, element.font.is_bold)
    IN  IF IsTitlePart(lower(text), title) \/ IsFilteredText(text) THEN <<>>
        ELSE IF level > 0
             THEN << [ text  |-> IF ~endswith(text, " ") THEN text \o " " ELSE text,
                       level |-> level,
                       page  |-> element.page_number ] >>
             ELSE <<>>

\* whether the loop of lines 238-265 raises (the classifier divides by avg_size)
find_headings_fast_1a_raises(elems, avg_size, title) ==
    /\ ~IsFormLike(elems, title)
    /\ \E i \in 1..Len(elems) :
          /\ ~IsTitlePart(lower(strip(elems[i].text)), title)
          /\ ~IsFilteredText(strip(elems[i].text))
          /\ classify_improved_raises(strip(elems[i].text), avg_size)

\* lines 227-228: size_75th and size_90th, avg_size when there is no size
size_thresholds(font_sizes, avg_size) ==
    IF font_sizes # <<>>
    THEN [size_75th |-> SizePercentile(font_sizes, 3, 4),
          size_90th |-> SizePercentile(font_sizes, 9, 10)]
    ELSE [size_75th |-> avg_size, size_90th |-> avg_size]

\* lines 225-265: the headings list before the duplicates are removed
candidate_headings_1a(elems, avg_size, title) ==
    LET font_sizes == MapSeq(elems, LAMBDA e : e.font.size)
        size_75th == size_thresholds(font_sizes, avg_size).size_75th
        size_90th == size_thresholds(font_sizes, avg_size).size_90th
    IN  Flatten([i \in 1..Len(elems) |->
                    ElementHeadings1a(elems[i], avg_size, size_75th, size_90th, title)])

\* _find_headings_fast
find_headings_fast_1a(elems, avg_size, title) ==
    IF IsFormLike(elems, title) THEN <<>>
    ELSE SortStable(unique_headings_loop(candidate_headings_1a(elems, avg_size, title), {}),
                    OutlineOrderLess1a)

\* Heading.to_dict
to_dict_1a(h) == [level |-> "H" \o ToString(h.level), text |-> strip(h.text), page |-> h.page]

\* extract_headings without the handler of lines 89-91: a reader error leaves
\* the method as an exception.  Not the program: the variant that shows what
\* the empty-document contract owes to the handler.
extract_headings_unprotected(d) ==
    [title |-> None, outline |-> <<>>, raised |-> extract_text_fast(d).raised]

\* extract_headings: the handler of lines 89-91 turns every exception into an
\* empty result
extract_headings_1a(d) ==
    LET ext == extract_text_fast(d)
        text_elements == ext.elements
        font_sizes == MapSeq(text_elements, LAMBDA e : e.font.size)
        avg_size == [num |-> SumSeq(font_sizes), den |-> Len(font_sizes)]
        max_size == MaxOfSeq(font_sizes)
        title == extract_title_fast_1a(text_elements, max_size)
    IN  IF ext.raised
        THEN [title |-> Some(""), outline |-> <<>>, raised |-> FALSE]
        ELSE IF text_elements = <<>>
        THEN [title |-> None, outline |-> <<>>, raised |-> FALSE]
        ELSE IF find_headings_fast_1a_raises(text_elements, avg_size, title)
        THEN [title |-> Some(""), outline |-> <<>>, raised |-> FALSE]
        ELSE [title   |-> IF Truthy(title) THEN title ELSE Some(""),
              outline |-> MapSeq(find_headings_fast_1a(text_elements, avg_size, title),
                                 to_dict_1a),
              raised  |-> FALSE]

-----------------------------------------------------------------------------
(* FastPDFHeadingExtractor of process_pdfs.py (the repository root).       *)

\* re.match(r'^\d+\.\s+[A-Z]', s)
MatchesNumberedCap(s) ==
    LET d == RunLen(s, 1, DigitChars)
        w == RunLen(s, d + 2, WhitespaceChars)
    IN  /\ d >= 1
        /\ d + 1 <= Len(s) /\ Char(s, d + 1) = "."
        /\ w >= 1
        /\ d + 2 + w <= Len(s) /\ Char(s, d + 2 + w) \in UpperChars

\* re.match(r'^[A-Z][A-Z\s]{8,}$', s)
MatchesAllCaps(s) ==
    /\ Len(s) >= 9
    /\ Char(s, 1) \in UpperChars
    /\ \A i \in 2..Len(s) : Char(s, i) \in UpperChars \cup WhitespaceChars

\* re.match(r'^(Introduction|Conclusion|References|Acknowledgements|Abstract)$', s)
MatchesSectionName(s) ==
    s \in {"Introduction", "Conclusion", "References", "Acknowledgements", "Abstract"}

\* re.match(r'^\d+\.\d+\s+[A-Z]', s)
MatchesSubNumbered(s) ==
    LET d == RunLen(s, 1, DigitChars)
        e == RunLen(s, d + 2, DigitChars)
        w == RunLen(s, d + 2 + e, WhitespaceChars)
    IN  /\ d >= 1
        /\ d + 1 <= Len(s) /\ Char(s, d + 1) = "."
        /\ e >= 1
        /\ w >= 1
        /\ d + 2 + e + w <= Len(s) /\ Char(s, d + 2 + e + w) \in UpperChars

\* some pattern of self.h1_patterns matches
MatchesH1Pattern(s) == MatchesNumberedCap(s) \/ MatchesAllCaps(s) \/ MatchesSectionName(s)

\* some pattern of self.h2_patterns matches
MatchesH2Pattern(s) == MatchesSubNumbered(s)

\* lines 248-257: size_ratio = font_size / avg_size against 1.5, 1.2 and 1.1
SizeLevelFast(font_size, avg_size) ==
    IF SizeRatioCmp(font_size, avg_size, 15, 10) > 0 THEN 1
    ELSE IF SizeRatioCmp(font_size, avg_size, 12, 10) > 0 THEN 2
    ELSE IF SizeRatioCmp(font_size, avg_size, 11, 10) > 0 THEN 3
    ELSE 0

\* _classify_level_fast with the size ladder asked first.  Not the program: the
\* variant that shows what the priority of the patterns is worth.
classify_level_size_first(text, font_size, avg_size) ==
    IF SizeLevelFast(font_size, avg_size) > 0 THEN SizeLevelFast(font_size, avg_size)
    ELSE IF MatchesH1Pattern(strip(text)) THEN 1
    ELSE IF MatchesH2Pattern(strip(text)) THEN 2
    ELSE 0

\* _classify_level_fast
classify_level_fast(text, font_size, avg_size) ==
    LET text_strip == strip(text) IN
    IF MatchesH1Pattern(text_strip) THEN 1
    ELSE IF MatchesH2Pattern(text_strip) THEN 2
    ELSE SizeLevelFast(font_size, avg_size)

\* font_size / avg_size raises ZeroDivisionError: only when no pattern returned
classify_level_fast_raises(text, avg_size) ==
    /\ ~MatchesH1Pattern(strip(text))
    /\ ~MatchesH2Pattern(strip(text))
    /\ avg_size.num = 0

\* lines 146-153: the page-1 elements that may be part of the title
IsTitleCandidateRoot(e, max_size) ==
    /\ SizeScaledCmp(e.font.size, max_size, 85, 100) >= 0
    /\ PositionBelow(e.position_y, 5, 10)
    /\ Len(strip(e.text)) > 3
    /\ ~isdigit(strip(e.text))
    /\ strip(e.text) \notin {"----------------", "____"}

RECURSIVE combined_parts_loop(_, _, _)
\* lines 162-173: candidates less than 0.05 apart are joined; last_y is None or <<y>>
combined_parts_loop(cands, combined_parts, last_y) ==
    IF cands = <<>> THEN combined_parts
    ELSE LET candidate == cands[1]
             n == Len(combined_parts)
         IN IF last_y # None /\ PositionGapCmp(candidate.position_y, last_y[1], 5, 100) < 0
            THEN combined_parts_loop(
                    Tail(cands),
                    IF combined_parts # <<>>
                    THEN [combined_parts EXCEPT ![n] = @ \o " " \o strip(candidate.text)]
                    ELSE combined_parts,
                    <<candidate.position_y>>)
            ELSE combined_parts_loop(Tail(cands),
                                     Append(combined_parts, strip(candidate.text)),
                                     <<candidate.position_y>>)

\* max(parts, key=len): the first of the longest
LongestFirst(parts) ==
    parts[CHOOSE i \in 1..Len(parts) :
            /\ \A j \in 1..Len(parts) : Len(parts[j]) <= Len(parts[i])
            /\ \A j \in 1..(i - 1) : Len(parts[j]) < Len(parts[i])]

\* lines 160-181: the title made of the sorted candidates
title_of_candidates_root(title_candidates) ==
    LET combined_parts == combined_parts_loop(title_candidates, <<>>, None) IN
    IF combined_parts # <<>> /\ Len(LongestFirst(combined_parts)) > 5
    THEN Some(LongestFirst(combined_parts))
    ELSE None

\* _extract_title_fast, statement by statement on the store: first_page
\* (line 141) and title_candidates (lines 146-153) are list comprehensions,
\* line 159 sorts title_candidates
run_title_fast_root(elems, max_size) ==
    LET s0 == CallStore("elements", elems)
        s1 == NewList(s0, "first_page",
                      SelectSeq(ListOf(s0, "elements"), LAMBDA e : e.page_number = 1))
        first_page == ListOf(s1, "first_page")
    IN
    IF first_page = <<>> THEN CallResult(None, s1)
    ELSE
    LET s2 == NewList(s1, "title_candidates",
                      SelectSeq(first_page, LAMBDA e : IsTitleCandidateRoot(e, max_size)))
    IN
    IF ListOf(s2, "title_candidates") = <<>> THEN CallResult(None, s2)
    ELSE LET s3 == SortList(s2, "title_candidates",
                            LAMBDA a, b : PositionLess(a.position_y, b.position_y))
         IN  CallResult(title_of_candidates_root(ListOf(s3, "title_candidates")), s3)

\* _extract_title_fast: the value returned
extract_title_fast_root(elems, max_size) == run_title_fast_root(elems, max_size).title

\* lines 189-198: the element is the title, or an obvious non-heading
IsSkippedRoot(element, title) ==
    LET text_strip == strip(element.text) IN
    \/ Truthy(title) /\ lower(text_strip) = lower(strip(title[1]))
    \/ Len(text_strip) < 3
    \/ endswith(text_strip, ".")
    \/ isdigit(text_strip)
    \/ text_strip \in {"----------------", "____", "...."}

\* lines 201-213: the level of one element
ElementLevelRoot(element, avg_size) ==
    LET level == classify_level_fast(element.text, element.font.size, avg_size) IN
    IF level # 0 THEN level
    ELSE IF \/ SizeAverageCmp(element.font.size, avg_size, 13, 10) > 0
            \/ element.font.is_bold
         THEN IF SizeRatioCmp(element.font.size, avg_size, 15, 10) > 0 THEN 1
              ELSE IF SizeRatioCmp(element.font.size, avg_size, 12, 10) > 0 THEN 2
              ELSE IF element.font.is_bold THEN 3
              ELSE 0
         ELSE 0

\* lines 187-220: the heading one element gives, if any
ElementHeadingsRoot(element, avg_size, title) ==
    IF IsSkippedRoot(element, title) THEN <<>>
    ELSE IF ElementLevelRoot(element, avg_size) > 0
         THEN << [ text  |-> element.text,
                   level |-> ElementLevelRoot(element, avg_size),
                   page  |-> element.page_number ] >>
         ELSE <<>>

\* the key of line 223: (x.page, x.text)
OutlineOrderLessRoot(a, b) ==
    \/ a.page < b.page
    \/ a.page = b.page /\ StrLess(a.text, b.text)

\* whether the loop of lines 187-220 raises (the classifier divides by avg_size)
find_headings_fast_root_raises(elems, avg_size, title) ==
    \E i \in 1..Len(elems) :
        /\ ~IsSkippedRoot(elems[i], title)
        /\ classify_level_fast_raises(elems[i].text, avg_size)

\* _find_headings_fast
find_headings_fast_root(elems, avg_size, title) ==
    LET headings == Flatten([i \in 1..Len(elems) |->
                                ElementHeadingsRoot(elems[i], avg_size, title)])
    IN  unique_headings_loop(SortStable(headings, OutlineOrderLessRoot), {})

\* Heading.to_dict
to_dict_root(h) == [text |-> strip(h.text), level |-> "H" \o ToString(h.level), page |-> h.page]

\* extract_headings: the handler of lines 89-91 turns every exception into an
\* empty result
extract_headings_root(d) ==
    LET ext == extract_text_fast(d)
        text_elements == ext.elements
        font_sizes == MapSeq(text_elements, LAMBDA e : e.font.size)
        avg_size == [num |-> SumSeq(font_sizes), den |-> Len(font_sizes)]
        max_size == MaxOfSeq(font_sizes)
        title == extract_title_fast_root(text_elements, max_size)
    IN  IF ext.raised
        THEN [title |-> None, outline |-> <<>>, raised |-> FALSE]
        ELSE IF text_elements = <<>>
        THEN [title |-> None, outline |-> <<>>, raised |-> FALSE]
        ELSE IF find_headings_fast_root_raises(text_elements, avg_size, title)
        THEN [title |-> None, outline |-> <<>>, raised |-> FALSE]
        ELSE [title   |-> title,
              outline |-> MapSeq(find_headings_fast_root(text_elements, avg_size, title),
                                 to_dict_root),
              raised  |-> FALSE]

-----------------------------------------------------------------------------
(* PDFHeadingExtractor of pdf_heading_extractor.py.  The confidence        *)
(* threshold is a decimal literal, kept as its number of thousandths;      *)
(* scores and confidences are doubles.  A second reader, pdfplumber, gives *)
(* the characters of a page: the model takes them from the page's spans,   *)
(* ten points wide each.  pdfplumber.open raises when the document's       *)
(* plumber_ok is false, page.chars when the page's chars_ok is false.      *)

\* line 109: the default of heading_confidence_threshold, which __init__ stores in
\* the field of that name
DefaultConfidenceThreshold == 600

\* FontInfo.is_bold
is_bold(font) == Contains(lower(font.weight), "bold") \/ Contains(font.name, "Bold")

\* lines 181-202: the element of one span, before the whitespace pass
FullSpanElements(span, page, page_num) ==
    LET text == strip(span.text) IN
    IF Len(text) < 3 THEN <<>>
    ELSE << [ text             |-> text,
              font             |-> [ size   |-> span.size,
                                     name   |-> span.font,
                                     weight |-> IF Contains(lower(span.font), "bold")
                                                THEN "bold" ELSE "normal",
                                     italic |-> Contains(lower(span.font), "italic"),
                                     bbox   |-> span.bbox ],
              page_number      |-> page_num,
              position_y       |-> NormalizedY(span, page),
              line_length      |-> Len(text),
              whitespace_above |-> 0,
              whitespace_below |-> 0 ] >>

\* lines 204-210: the page's elements by Y, each with the gaps to its neighbours
WithWhitespace(page_elements) ==
    LET sorted == SortStable(page_elements, LAMBDA a, b : a.font.bbox[2] < b.font.bbox[2])
        n == Len(sorted)
    IN  Tuple([i \in 1..n |->
            [sorted[i] EXCEPT
                !.whitespace_above =
                    IF i > 1 THEN sorted[i].font.bbox[2] - sorted[i - 1].font.bbox[4] ELSE 0,
                !.whitespace_below =
                    IF i < n THEN sorted[i + 1].font.bbox[2] - sorted[i].font.bbox[4] ELSE 0]])

FullPageElements(page, page_num) ==
    WithWhitespace(Flatten([i \in 1..Len(page.spans) |->
                               FullSpanElements(page.spans[i], page, page_num)]))

\* page.chars of pdfplumber: one record for every character of every span
SpanChars(span) ==
    Tuple([i \in 1..Len(span.text) |->
        [text |-> Char(span.text, i), top |-> span.bbox[2], fontname |-> span.font,
         size |-> span.size, x0 |-> span.bbox[1] + 10 * (i - 1),
         x1 |-> span.bbox[1] + 10 * i]])

PageChars(page) == Flatten([i \in 1..Len(page.spans) |-> SpanChars(page.spans[i])])

\* the key of line 246: (round(char['top'], 1), fontname, size)
LineKey(char) == <<char.top, char.fontname, char.size>>

\* the keys of the dict of lines 243-247, in insertion order: the key of every
\* character that is no white space, placed where its first character stands
LineKeysInOrder(chars) ==
    LET n == Len(chars)
        keys == {LineKey(chars[i]) : i \in {j \in 1..n : strip(chars[j].text) # ""}}
        FirstAt(k) == CHOOSE i \in 1..n :
                          /\ strip(chars[i].text) # "" /\ LineKey(chars[i]) = k
                          /\ \A j \in 1..(i - 1) :
                                ~(strip(chars[j].text) # "" /\ LineKey(chars[j]) = k)
        first == {FirstAt(k) : k \in keys}
    IN  [r \in 1..Cardinality(first) |->
            LineKey(chars[CHOOSE i \in first : Cardinality({j \in first : j < i}) = r - 1])]

MinOfSeq(s) == CHOOSE m \in {s[i] : i \in 1..Len(s)} : \A i \in 1..Len(s) : m <= s[i]

\* lines 249-277: the element of one line of characters
LineElements(key, chars, page_number) ==
    LET line_chars == SelectSeq(chars, LAMBDA c : strip(c.text) # "" /\ LineKey(c) = key)
        text == join("", MapSeq(line_chars, LAMBDA c : c.text))
        y_pos == key[1]
        font_name == key[2]
        font_size == key[3]
    IN  IF Len(line_chars) < 3 THEN <<>>
        ELSE << [ text             |-> strip(text),
                  font             |-> [ size   |-> font_size,
                                         name   |-> font_name,
                                         weight |-> IF Contains(lower(font_name), "bold")
                                                    THEN "bold" ELSE "normal",
                                         italic |-> Contains(lower(font_name), "italic"),
                                         bbox   |-> << MinOfSeq(MapSeq(line_chars, LAMBDA c : c.x0)),
                                                       y_pos,
                                                       MaxOfSeq(MapSeq(line_chars, LAMBDA c : c.x1)),
                                                       y_pos + font_size >> ],
                  page_number      |-> page_number,
                  \* y_pos / 800
                  position_y       |-> [num |-> y_pos, den |-> 800],
                  line_length      |-> Len(strip(text)),
                  whitespace_above |-> 0,
                  whitespace_below |-> 0 ] >>

\* _group_chars_to_elements
group_chars_to_elements(chars, page_number) ==
    LET keys == LineKeysInOrder(chars) IN
    Flatten([k \in 1..Len(keys) |-> LineElements(keys[k], chars, page_number)])

\* the pages pdfplumber reads before page.chars raises, all when it never does
PlumberPagesRead(d) ==
    LET total_pages == Min(Len(d.pages), max_pages)
        bad == {p \in 1..total_pages : ~d.pages[p].chars_ok}
    IN  IF bad = {} THEN total_pages ELSE (CHOOSE p \in bad : \A q \in bad : p <= q) - 1

\* _extract_with_pdfplumber: the try of lines 226-234 holds the loop over the
\* pages and its handler only logs, so that an error leaves the elements of the
\* pages read before it
extract_with_pdfplumber(d) ==
    IF ~d.plumber_ok THEN <<>>
    ELSE Flatten([p \in 1..PlumberPagesRead(d) |->
                    IF PageChars(d.pages[p]) # <<>>
                    THEN group_chars_to_elements(PageChars(d.pages[p]), p)
                    ELSE <<>>])

\* the first page whose get_text raises, 0 when none does
FirstBadPage(d) ==
    LET total_pages == Min(Len(d.pages), max_pages)
        bad == {p \in 1..total_pages : ~d.pages[p].ok}
    IN  IF bad = {} THEN 0 ELSE CHOOSE p \in bad : \A q \in bad : p <= q

\* _extract_text_elements: on a reader error the handler of lines 216-219 adds
\* the fallback's elements to those of the pages already read
extract_text_elements(d) ==
    IF ~d.open_ok THEN extract_with_pdfplumber(d)
    ELSE IF FirstBadPage(d) = 0
    THEN Flatten([p \in 1..Min(Len(d.pages), max_pages) |-> FullPageElements(d.pages[p], p)])
    ELSE Flatten([p \in 1..(FirstBadPage(d) - 1) |-> FullPageElements(d.pages[p], p)])
            \o extract_with_pdfplumber(d)

\* TextElement.is_potential_heading
is_potential_heading(e) ==
    /\ Len(strip(e.text)) > 3
    /\ Len(strip(e.text)) < 200
    /\ ~endswith(e.text, ".")
    /\ (is_bold(e.font) \/ e.font.size > 12)

\* Counter(font_sizes).most_common(1)[0][0]: the most frequent size, the one met
\* first among equally frequent ones
most_common_size(font_sizes) ==
    LET Count(v) == Cardinality({i \in 1..Len(font_sizes) : font_sizes[i] = v})
        best == CHOOSE i \in 1..Len(font_sizes) :
                    /\ \A j \in 1..Len(font_sizes) : Count(font_sizes[j]) <= Count(font_sizes[i])
                    /\ \A j \in 1..(i - 1) : Count(font_sizes[j]) < Count(font_sizes[i])
    IN  font_sizes[best]

\* re.match(r'^\d+\.?\s+[A-Z]', s, re.IGNORECASE)
MatchesNumberedLetter(s) ==
    LET d == RunLen(s, 1, DigitChars)
        dot == IF d + 1 <= Len(s) /\ Char(s, d + 1) = "." THEN 1 ELSE 0
        w == RunLen(s, d + dot + 1, WhitespaceChars)
    IN  /\ d >= 1
        /\ w >= 1
        /\ d + dot + w + 1 <= Len(s)
        /\ Char(s, d + dot + w + 1) \in UpperChars \cup LowerChars

\* re.match(r'^[A-Z][A-Z\s]{2,}$', s, re.IGNORECASE)
MatchesLettersAndSpaces(s) ==
    /\ Len(s) >= 3
    /\ Char(s, 1) \in UpperChars \cup LowerChars
    /\ \A i \in 2..Len(s) : Char(s, i) \in UpperChars \cup LowerChars \cup WhitespaceChars

RECURSIVE MatchesWordsFrom(_, _)
\* [A-Z][a-z]+(?:\s+[A-Z][a-z]+)*$ from position i on, ignoring case: words of
\* two letters or more, separated by white space
MatchesWordsFrom(s, i) ==
    LET l == RunLen(s, i, UpperChars \cup LowerChars)
        w == RunLen(s, i + l, WhitespaceChars)
    IN  /\ l >= 2
        /\ \/ i + l = Len(s) + 1
           \/ w >= 1 /\ MatchesWordsFrom(s, i + l + w)

\* re.match(r'^Chapter\s+\d+', s, re.IGNORECASE), and the same for Section
MatchesKeywordNumber(s, keyword) ==
    LET k == Len(keyword)
        w == RunLen(s, k + 1, WhitespaceChars)
    IN  /\ startswith(lower(s), keyword)
        /\ w >= 1
        /\ RunLen(s, k + 1 + w, DigitChars) >= 1

\* some pattern of self.heading_patterns matches (re.IGNORECASE)
MatchesHeadingPattern(s) ==
    \/ MatchesNumberedLetter(s)
    \/ MatchesLettersAndSpaces(s)
    \/ MatchesWordsFrom(s, 1)
    \/ MatchesKeywordNumber(s, "chapter")
    \/ MatchesKeywordNumber(s, "section")
    \/ lower(s) \in {"abstract", "introduction", "conclusion", "references"}

\* str.isupper(): a cased character, and no lower-case one
isupper(s) ==
    /\ \E i \in 1..Len(s) : Char(s, i) \in UpperChars
    /\ \A i \in 1..Len(s) : Char(s, i) \notin LowerChars

RECURSIVE WordCountFrom(_, _)
\* len(s.split()) from position i on
WordCountFrom(s, i) ==
    LET w == RunLen(s, i, WhitespaceChars)
        l == RunLen(s, i + w, AllCharsButWhitespace)
    IN  IF l = 0 THEN 0 ELSE 1 + WordCountFrom(s, i + w + l)

\* the score of _calculate_pattern_score in tenths: it is one of the literals
\* 0.0, 0.5, 0.7 and 0.9
pattern_score_tenths(text) ==
    LET s1 == IF MatchesHeadingPattern(strip(text)) THEN 9 ELSE 0
        s2 == IF isupper(text) /\ WordCountFrom(text, 1) <= 5 /\ s1 < 7 THEN 7 ELSE s1
        s3 == IF /\ Len(text) >= 2
                 /\ Char(text, 1) \in UpperChars /\ Char(text, 2) \in LowerChars
                 /\ ~endswith(text, ".")
                 /\ s2 < 5
              THEN 5 ELSE s2
    IN  Min(s3, 10)

\* _calculate_pattern_score
calculate_pattern_score(text) == DecimalFloat[100 * pattern_score_tenths(text)]

\* the literals _calculate_format_score adds to its score, in tenths and in the
\* order it adds them
format_score_terms(element) ==
    (IF is_bold(element.font) THEN <<4>> ELSE <<>>)
    \o (IF 5 <= element.line_length /\ element.line_length <= 100 THEN <<3>> ELSE <<>>)
    \o (IF element.whitespace_above > 10 THEN <<2>> ELSE <<>>)
    \o (IF element.whitespace_below > 5 THEN <<1>> ELSE <<>>)

\* score += literal for every term, from 0.0 on
RECURSIVE FloatSumTenths(_, _)
FloatSumTenths(score, terms) ==
    IF terms = <<>> THEN score
    ELSE FloatSumTenths(FloatAdd(score, DecimalFloat[100 * terms[1]]), Tail(terms))

\* _calculate_format_score
calculate_format_score(element) ==
    FloatMin(FloatSumTenths(FloatZero, format_score_terms(element)), FloatOne)

\* line 312: size_score
size_score(element, body_text_size) ==
    IF body_text_size > 0 THEN FloatRatio(element.font.size, body_text_size) ELSE FloatOne

\* line 321: confidence
heading_confidence(element, body_text_size) ==
    FloatAdd(FloatAdd(FloatMul(size_score(element, body_text_size), DecimalFloat[400]),
                      FloatMul(calculate_pattern_score(element.text), DecimalFloat[400])),
             FloatMul(calculate_format_score(element), DecimalFloat[200]))

\* line 323: confidence >= self.heading_confidence_threshold.  The difference of
\* the two sides as fractions is taken in units of 1 / (1000 * body_text_size)
IsConfidentHeading(element, body_text_size) ==
    FloatSign(IF body_text_size > 0
              THEN 400 * element.font.size
                      + (40 * pattern_score_tenths(element.text)
                         + 20 * SumSeq(format_score_terms(element))) * body_text_size
                      - heading_confidence_threshold * body_text_size
              ELSE 400 + 40 * pattern_score_tenths(element.text)
                       + 20 * SumSeq(format_score_terms(element))
                       - heading_confidence_threshold,
              FloatCmp(heading_confidence(element, body_text_size),
                       ThresholdFloat(heading_confidence_threshold))) >= 0

\* _identify_potential_headings
identify_potential_headings(text_elements) ==
    LET body_text_size == most_common_size(MapSeq(text_elements, LAMBDA e : e.font.size)) IN
    SelectSeq(text_elements,
              LAMBDA e : is_potential_heading(e) /\ IsConfidentHeading(e, body_text_size))

\* sorted(set(sizes), reverse=True)[k - 1]: the k-th largest distinct size
KthLargest(sizes, k) ==
    CHOOSE v \in sizes : Cardinality({u \in sizes : u > v}) = k - 1

\* lines 379-391: level_thresholds
level_thresholds(unique_sizes) ==
    IF Cardinality(unique_sizes) >= 3
    THEN <<KthLargest(unique_sizes, 1), KthLargest(unique_sizes, 2), KthLargest(unique_sizes, 3)>>
    ELSE IF Cardinality(unique_sizes) = 2
    THEN <<KthLargest(unique_sizes, 1), KthLargest(unique_sizes, 2), KthLargest(unique_sizes, 2)>>
    ELSE IF unique_sizes # {}
    THEN <<KthLargest(unique_sizes, 1), KthLargest(unique_sizes, 1), KthLargest(unique_sizes, 1)>>
    ELSE <<12, 12, 12>>

\* re.match(r'^\d+\.?\s+', s)
MatchesNumberPrefix(s) ==
    LET d == RunLen(s, 1, DigitChars)
        dot == IF d + 1 <= Len(s) /\ Char(s, d + 1) = "." THEN 1 ELSE 0
    IN  d >= 1 /\ RunLen(s, d + dot + 1, WhitespaceChars) >= 1

\* lines 396-425: the Heading of one element
ClassifiedHeading(element, thresholds) ==
    LET by_size == IF element.font.size >= thresholds[1] THEN 1
                   ELSE IF element.font.size >= thresholds[2] THEN 2
                   ELSE 3
        level == IF lower(strip(element.text)) \in
                        {"abstract", "introduction", "conclusion", "references"}
                 THEN 1
                 ELSE IF MatchesNumberPrefix(strip(element.text)) THEN Min(by_size, 2)
                 ELSE by_size
    IN  [ text        |-> element.text,
          level       |-> level,
          page        |-> element.page_number,
          font_size   |-> element.font.size,
          font_weight |-> IF is_bold(element.font) THEN "bold" ELSE "normal",
          confidence  |-> FloatMin(
                              FloatAdd(FloatAdd(ThresholdFloat(heading_confidence_threshold),
                                                FloatMul(calculate_pattern_score(element.text),
                                                         DecimalFloat[300])),
                                       FloatMul(calculate_format_score(element),
                                                DecimalFloat[200])),
                              FloatOne),
          position_y  |-> element.position_y ]

\* _classify_heading_levels
classify_heading_levels(potential_headings) ==
    IF potential_headings = <<>> THEN <<>>
    ELSE LET unique_sizes == {potential_headings[i].font.size : i \in 1..Len(potential_headings)}
             thresholds == level_thresholds(unique_sizes)
         IN  SortStable(MapSeq(potential_headings, LAMBDA e : ClassifiedHeading(e, thresholds)),
                        LAMBDA a, b : \/ a.page < b.page
                                      \/ /\ a.page = b.page
                                         /\ PositionLess(a.position_y, b.position_y))

\* _extract_title, statement by statement on the store: first_page_elements
\* (line 441) and title_candidates (lines 450-456) are list comprehensions,
\* line 460 sorts title_candidates
run_title_full(text_elements) ==
    IF text_elements = <<>> THEN CallResult(None, CallStore("text_elements", text_elements))
    ELSE
    LET s0 == CallStore("text_elements", text_elements)
        s1 == NewList(s0, "first_page_elements",
                      SelectSeq(ListOf(s0, "text_elements"),
                                LAMBDA e : e.page_number = 1))
        first_page_elements == ListOf(s1, "first_page_elements")
    IN
    IF first_page_elements = <<>> THEN CallResult(None, s1)
    ELSE
    LET largest_size == MaxOfSeq(MapSeq(first_page_elements, LAMBDA e : e.font.size))
        s2 == NewList(s1, "title_candidates",
                      SelectSeq(first_page_elements,
                                LAMBDA e : /\ e.font.size = largest_size
                                           /\ PositionBelow(e.position_y, 3, 10)
                                           /\ Len(strip(e.text)) > 5
                                           /\ Len(strip(e.text)) < 200))
    IN
    IF ListOf(s2, "title_candidates") = <<>> THEN CallResult(None, s2)
    ELSE LET s3 == SortList(s2, "title_candidates",
                            LAMBDA a, b : PositionLess(a.position_y, b.position_y))
         IN  CallResult(Some(strip(ListOf(s3, "title_candidates")[1].text)), s3)

\* _extract_title: the value returned
extract_title(text_elements) == run_title_full(text_elements).title

\* extract_headings; the result's "outline" is ExtractionResult.headings (the
\* document_info and extraction_stats of the result are not modelled)
extract_headings_full(d) ==
    LET text_elements == extract_text_elements(d) IN
    IF text_elements = <<>>
    THEN [title |-> None, outline |-> <<>>, raised |-> FALSE]
    ELSE [title   |-> extract_title(text_elements),
          outline |-> classify_heading_levels(identify_potential_headings(text_elements)),
          raised  |-> FALSE]

-----------------------------------------------------------------------------
(* PersonaBasedAnalyzer of Challenge_1b/process_challenge1b.py.  Texts are *)
(* ASCII: the bullet character the sentence bonus also looks for does not  *)
(* occur in them.                                                          *)

travel_keywords == <<
    "itinerary", "accommodation", "hotel", "restaurant", "attraction", "tour",
    "transport", "flight", "train", "bus", "guide", "booking", "reservation",
    "sightseeing", "museum", "beach", "activity", "cost", "price", "budget",
    "travel", "destination", "location", "map", "route", "schedule", "visit",
    "explore", "experience", "culture", "history", "tradition", "city", "town",
    "festival", "event", "entertainment", "nightlife", "shopping", "market" >>

hr_keywords == <<
    "form", "fillable", "field", "signature", "submit", "workflow", "approval",
    "onboarding", "compliance", "document", "template", "process", "digital",
    "electronic", "pdf", "acrobat", "create", "manage", "distribute", "collect",
    "employee", "hr", "human resources", "policy", "procedure", "training",
    "export", "convert", "edit", "share", "collaboration", "review", "comment",
    "security", "permission", "access", "protect", "password", "encrypt" >>

food_keywords == <<
    "recipe", "ingredient", "cook", "preparation", "vegetarian", "vegan",
    "buffet", "menu", "dish", "meal", "serving", "portion", "corporate",
    "catering", "dinner", "lunch", "breakfast", "food", "cuisine", "dietary",
    "allergen", "nutrition", "quantity", "scale", "cooking", "kitchen" >>

\* _get_persona_keywords
get_persona_keywords(persona) ==
    CASE persona = "Travel Planner" -> travel_keywords
      [] persona = "HR Professional" -> hr_keywords
      [] persona = "Food Contractor" -> food_keywords
      [] OTHER -> <<>>

\* s.split(c) for a single character c: the pieces between its occurrences
split_char(s, c) ==
    LET cuts == {i \in 1..Len(s) : Char(s, i) = c}
        n == Cardinality(cuts)
        \* the position of the k-th occurrence; 0 and Len(s) + 1 at the ends
        Cut(k) == IF k = 0 THEN 0
                  ELSE IF k = n + 1 THEN Len(s) + 1
                  ELSE CHOOSE i \in cuts : Cardinality({j \in cuts : j < i}) = k - 1
    IN  Tuple([k \in 1..(n + 1) |-> SubSeq(s, Cut(k - 1) + 1, Cut(k) - 1)])

\* s.split(): the maximal runs of characters that are no white space
split_words(s) ==
    LET starts == {i \in 1..Len(s) :
                      /\ Char(s, i) \notin WhitespaceChars
                      /\ (i = 1 \/ Char(s, i - 1) \in WhitespaceChars)}
        n == Cardinality(starts)
        Start(k) == CHOOSE i \in starts : Cardinality({j \in starts : j < i}) = k - 1
        End(i) == CHOOSE e \in i..Len(s) :
                      /\ \A j \in i..e : Char(s, j) \notin WhitespaceChars
                      /\ (e = Len(s) \/ Char(s, e + 1) \in WhitespaceChars)
    IN  Tuple([k \in 1..n |-> SubSeq(s, Start(k), End(Start(k)))])

RECURSIVE count_from(_, _, _)
\* s.count(p) from position i on: occurrences that do not overlap, left to right
count_from(s, p, i) ==
    LET hits == {j \in i..(Len(s) - Len(p) + 1) : SubSeq(s, j, j + Len(p) - 1) = p} IN
    IF hits = {} THEN 0
    ELSE 1 + count_from(s, p, (CHOOSE j \in hits : \A k \in hits : j <= k) + Len(p))

\* s.count(p)
count_sub(s, p) == count_from(s, p, 1)

\* the number of entries of the list that occur in the text
CountPresent(keywords, text) ==
    Cardinality({i \in 1..Len(keywords) : Contains(text, keywords[i])})

non_veg_keywords ==
    <<"chicken", "beef", "pork", "fish", "meat", "sausage", "bacon", "shrimp">>

\* lines 263-317 before the clamp: the bonuses and penalties of the persona
TaskScore(text, persona, task) ==
    LET text_lower == lower(text) IN
    IF persona = "Food Contractor"
    THEN 5 * CountPresent(<<"vegetarian", "vegan", "plant-based", "veggie", "tofu",
                            "beans", "lentils", "quinoa", "chickpeas">>, text_lower)
         + 3 * CountPresent(<<"gluten-free", "gluten free", "rice", "quinoa", "corn">>,
                            text_lower)
         + 2 * CountPresent(<<"buffet", "serving", "corporate", "large", "group",
                              "catering", "party">>, text_lower)
         - 10 * CountPresent(non_veg_keywords, text_lower)
    ELSE IF persona = "Travel Planner"
    THEN 3 * CountPresent(<<"group", "friends", "college", "budget", "affordable",
                            "young">>, text_lower)
         + 2 * CountPresent(<<"activity", "attraction", "tour", "visit", "explore",
                              "experience">>, text_lower)
    ELSE IF persona = "HR Professional"
    THEN 3 * CountPresent(<<"form", "fillable", "onboarding", "compliance", "employee",
                            "workflow">>, text_lower)
    ELSE 0

\* the score as it is, without the clamp of line 317.  Not the program: the
\* variant that shows what the clamp is worth.
task_relevance_unclamped(text, persona, task) == TaskScore(text, persona, task)

\* _calculate_task_relevance: max(score, 0)
calculate_task_relevance(text, persona, task) ==
    LET score == TaskScore(text, persona, task) IN
    IF score > 0 THEN score ELSE 0

\* line 322: the trimmed pieces between periods that are not empty
split_sentences(text) ==
    LET pieces == split_char(text, ".") IN
    SelectSeq([i \in 1..Len(pieces) |-> strip(pieces[i])], LAMBDA p : p # "")

\* line 326: the words of the task longer than 3 characters, in lower case
task_keywords(task) ==
    LET words == SelectSeq(split_words(task), LAMBDA w : Len(w) > 3) IN
    Tuple([i \in 1..Len(words) |-> lower(words[i])])

\* line 336: some non-vegetarian keyword occurs in the sentence
HasNonVeg(sentence) == CountPresent(non_veg_keywords, lower(sentence)) > 0

\* lines 329-342 without the slice of line 342.  Not the program: the variant
\* that shows what the number of sentences with meat owes to the slice.
meat_last_sentences(sentences, persona, task) ==
    IF persona = "Food Contractor" /\ Contains(lower(task), "vegetarian")
    THEN SelectSeq(sentences, LAMBDA x : ~HasNonVeg(x)) \o SelectSeq(sentences, HasNonVeg)
    ELSE sentences

\* lines 329-342: for a Food Contractor with a vegetarian task, the sentences
\* without meat and then at most two of the others
preferred_sentences(sentences, persona, task) ==
    IF persona = "Food Contractor" /\ Contains(lower(task), "vegetarian")
    THEN LET other_sentences == SelectSeq(sentences, HasNonVeg)
             vegetarian_sentences == SelectSeq(sentences, LAMBDA x : ~HasNonVeg(x))
         IN  vegetarian_sentences \o SubSeq(other_sentences, 1, Min(2, Len(other_sentences)))
    ELSE sentences

\* lines 348-373: relevance_score of one sentence.  The bullet character of
\* line 372 is outside the alphabet of the texts modelled here.
relevance_score(sentence, persona, relevant_keywords, task_words) ==
    LET sentence_lower == lower(sentence) IN
    2 * CountPresent(relevant_keywords, sentence_lower)
    + 3 * CountPresent(task_words, sentence_lower)
    + (IF persona = "Food Contractor"
       THEN 4 * CountPresent(<<"vegetarian", "vegan", "gluten-free", "buffet", "serving",
                               "corporate">>, sentence_lower)
       ELSE 0)
    + (IF \E i \in 1..Len(sentence) : Char(sentence, i) \in DigitChars THEN 1 ELSE 0)
    + (IF \E w \in {":", "-", "step", "how", "what", "where", "when"} :
             Contains(sentence_lower, w)
       THEN 1 ELSE 0)

\* line 375 without a threshold.  Not the program: the variant that shows what
\* the threshold is worth.
IsAnyScore(score) == TRUE

\* line 375: the score a sentence needs to be kept
IsRelevant(score) == score >= 1

\* lines 385-388 without the test of line 386.  Not the program: the variant
\* that shows what the size of the text owes to the test.
take_every_sentence(relevant_sentences, selected_sentences, total_length) ==
    selected_sentences
        \o [i \in 1..Len(relevant_sentences) |-> relevant_sentences[i].sentence]

RECURSIVE select_sentences(_, _, _)
\* lines 385-388: the sentences taken in order while the text stays below 500
\* characters and there are fewer than 4 of them
select_sentences(relevant_sentences, selected_sentences, total_length) ==
    IF relevant_sentences = <<>> THEN selected_sentences
    ELSE LET sentence == relevant_sentences[1].sentence IN
         IF total_length + Len(sentence) < 500 /\ Len(selected_sentences) < 4
         THEN select_sentences(Tail(relevant_sentences),
                               Append(selected_sentences, sentence),
                               total_length + Len(sentence))
         ELSE select_sentences(Tail(relevant_sentences), selected_sentences, total_length)

\* refine_text_for_persona
refine_text_for_persona(text, persona, task) ==
    LET sentences == preferred_sentences(split_sentences(text), persona, task)
        relevant_keywords == get_persona_keywords(persona)
        task_words == task_keywords(task)
        scored == Tuple([i \in 1..Len(sentences) |->
                            [sentence |-> sentences[i],
                             score    |-> relevance_score(sentences[i], persona,
                                                         relevant_keywords, task_words)]])
        relevant_sentences ==
            SortStable(SelectSeq(scored, LAMBDA x : Len(x.sentence) >= 30 /\ IsRelevant(x.score)),
                       LAMBDA a, b : a.score > b.score)
        selected_sentences == select_sentences(relevant_sentences, <<>>, 0)
    IN  IF selected_sentences # <<>> THEN join(". ", selected_sentences) \o "." ELSE ""

\* lines 120-132: the text block of one span, if its text is long enough
SpanBlocks(span, page_num) ==
    LET text == strip(span.text) IN
    IF Len(text) < 3 THEN <<>>
    ELSE << [ text      |-> text,
              page      |-> page_num,
              font_size |-> span.size,
              font_name |-> span.font,
              is_bold   |-> Contains(lower(span.font), "bold") \/ HasBoldFlag(span.flags),
              bbox      |-> span.bbox ] >>

\* extract_text_with_structure: the handler of lines 136-137 keeps the blocks of
\* the pages read before the reader failed
extract_text_with_structure(pdf) ==
    IF ~pdf.open_ok THEN <<>>
    ELSE LET bad == {p \in 1..Len(pdf.pages) : ~pdf.pages[p].ok}
             last == IF bad = {} THEN Len(pdf.pages)
                     ELSE (CHOOSE p \in bad : \A q \in bad : p <= q) - 1
         IN  Flatten([p \in 1..last |->
                        Flatten([i \in 1..Len(pdf.pages[p].spans) |->
                                    SpanBlocks(pdf.pages[p].spans[i], p)])])

GenericLabels == {"note:", "tip:", "important:", "warning:", "example:",
                  "note", "tip", "important", "warning"}

\* lines 157-162: is_proper_heading
is_proper_heading(block) ==
    LET text == strip(block.text) IN
    /\ block.is_bold
    /\ block.font_size > 11
    /\ 5 <= Len(text) /\ Len(text) <= 120
    /\ strip(lower(text)) \notin GenericLabels

RECURSIVE sections_closed_by_headings(_, _, _)
\* lines 153-175 without lines 177-178.  Not the program: the variant that
\* shows what the section open at the end of the input owes to those lines.
sections_closed_by_headings(text_blocks, potential_sections, current_section) ==
    IF text_blocks = <<>> THEN potential_sections
    ELSE LET block == text_blocks[1] IN
         IF is_proper_heading(block)
         THEN sections_closed_by_headings(Tail(text_blocks),
                                          potential_sections \o current_section,
                                          << [ title            |-> strip(block.text),
                                               page             |-> block.page,
                                               content          |-> <<block.text>>,
                                               importance_score |-> 0 ] >>)
         ELSE IF current_section # None
         THEN sections_closed_by_headings(
                  Tail(text_blocks), potential_sections,
                  << [current_section[1] EXCEPT
                         !.content = Append(current_section[1].content, block.text)] >>)
         ELSE sections_closed_by_headings(Tail(text_blocks), potential_sections,
                                          current_section)

RECURSIVE potential_sections_loop(_, _, _)
\* lines 153-178: a heading opens a section, the blocks after it are its
\* content; current_section is None or <<section>>
potential_sections_loop(text_blocks, potential_sections, current_section) ==
    IF text_blocks = <<>> THEN potential_sections \o current_section
    ELSE LET block == text_blocks[1] IN
         IF is_proper_heading(block)
         THEN potential_sections_loop(Tail(text_blocks),
                                      potential_sections \o current_section,
                                      << [ title            |-> strip(block.text),
                                           page             |-> block.page,
                                           content          |-> <<block.text>>,
                                           importance_score |-> 0 ] >>)
         ELSE IF current_section # None
         THEN potential_sections_loop(
                  Tail(text_blocks), potential_sections,
                  << [current_section[1] EXCEPT
                         !.content = Append(current_section[1].content, block.text)] >>)
         ELSE potential_sections_loop(Tail(text_blocks), potential_sections, current_section)

\* lines 183-202: the importance score of a section
section_score(section, persona) ==
    LET section_text == lower(join(" ", section.content))
        title_text == lower(section.title)
        relevant_keywords == get_persona_keywords(persona)
    IN  SumSeq([k \in 1..Len(relevant_keywords) |->
                   count_sub(title_text, relevant_keywords[k]) * 5
                   + count_sub(section_text, relevant_keywords[k])])
        + (IF Contains(section.title, ":") THEN 2 ELSE 0)
        + (IF Len(section.content) > 3 THEN 1 ELSE 0)

\* line 205 without a threshold.  Not the program: the variant that shows what
\* the threshold is worth.
keeps_every_section(score) == TRUE

\* line 205: the score a section needs to be returned
is_meaningful(score) == score >= 1

\* identify_sections
identify_sections(text_blocks, persona) ==
    LET potential_sections == potential_sections_loop(text_blocks, <<>>, None)
        scored == Tuple([i \in 1..Len(potential_sections) |->
                            [potential_sections[i] EXCEPT
                                !.importance_score =
                                    section_score(potential_sections[i], persona)]])
        sections == SortStable(SelectSeq(scored, LAMBDA x : is_meaningful(x.importance_score)),
                               LAMBDA a, b : a.importance_score > b.importance_score)
    IN  SubSeq(sections, 1, Min(15, Len(sections)))

\* section.get("document", "")
SectionDocument(section) ==
    IF "document" \in DOMAIN section THEN section.document ELSE ""

\* document_count.get(document, 0)
CountOf(document_count, document) ==
    IF document \in DOMAIN document_count THEN document_count[document] ELSE 0

\* line 239 without a limit.  Not the program: the variant that shows what the
\* limit per document is worth.
DocumentNeverFull(document_count, document) == FALSE

\* line 239: max_per_document sections of the document are taken already
DocumentIsFull(document_count, document) == CountOf(document_count, document) >= 3

RECURSIVE subsections_loop(_, _, _, _, _)
\* lines 235-259: the sections in order of task relevance
subsections_loop(task_scored_sections, subsection_analysis, document_count, persona, task) ==
    IF task_scored_sections = <<>> THEN subsection_analysis
    ELSE LET section == task_scored_sections[1].section
             document == SectionDocument(section)
             refined_text == refine_text_for_persona(join(" ", section.content), persona, task)
         IN  IF DocumentIsFull(document_count, document)
             THEN subsections_loop(Tail(task_scored_sections), subsection_analysis,
                                   document_count, persona, task)
             ELSE IF refined_text # "" /\ Len(refined_text) > 80
             THEN LET analysis == Append(subsection_analysis,
                                         [ document     |-> document,
                                           refined_text |-> refined_text,
                                           page_number  |-> section.page ])
                      counted == [d \in DOMAIN document_count \cup {document} |->
                                     IF d = document
                                     THEN CountOf(document_count, document) + 1
                                     ELSE document_count[d]]
                  IN  IF Len(analysis) >= 8 THEN analysis
                      ELSE subsections_loop(Tail(task_scored_sections), analysis,
                                            counted, persona, task)
             ELSE subsections_loop(Tail(task_scored_sections), subsection_analysis,
                                   document_count, persona, task)

\* analyze_subsections
analyze_subsections(sections, persona, task) ==
    LET top == SubSeq(sections, 1, Min(8, Len(sections)))
        task_scored_sections ==
            SortStable([i \in 1..Len(top) |->
                           [ section    |-> top[i],
                             task_score |-> calculate_task_relevance(
                                                join(" ", top[i].content), persona, task) ]],
                       LAMBDA a, b : a.task_score > b.task_score)
    IN  subsections_loop(task_scored_sections, <<>>, <<>>, persona, task)

\* lines 434-454: the sections of the documents whose PDF exists, in the order
\* of the manifest, each with its document
RECURSIVE collect_sections(_, _)
collect_sections(documents, persona_role) ==
    IF documents = <<>> THEN <<>>
    ELSE LET doc_info == documents[1]
             WithDocument(sections) ==
                 Tuple([i \in 1..Len(sections) |->
                           [ title            |-> sections[i].title,
                             page             |-> sections[i].page,
                             content          |-> sections[i].content,
                             importance_score |-> sections[i].importance_score,
                             document         |-> doc_info.filename ]])
         IN  (IF ~doc_info.exists THEN <<>>
              ELSE With(extract_text_with_structure(doc_info.pdf),
                        LAMBDA text_blocks :
                            With(identify_sections(text_blocks, persona_role),
                                 WithDocument)))
             \o collect_sections(Tail(documents), persona_role)

\* line 457 with a sort that puts the later of two sections of equal score
\* first.  Not the program: the variant that shows what the order of the
\* ranking owes to the stability of list.sort.
rank_sections_latest_first(all_sections_with_scores) ==
    SortStable([i \in 1..Len(all_sections_with_scores) |->
                   all_sections_with_scores[Len(all_sections_with_scores) + 1 - i]],
               LAMBDA a, b : a.importance_score > b.importance_score)

\* line 457: all_sections_with_scores.sort(key=importance_score, reverse=True)
rank_sections(all_sections_with_scores) ==
    SortStable(all_sections_with_scores,
               LAMBDA a, b : a.importance_score > b.importance_score)

\* line 458 without the limit.  Not the program: the variant that shows what
\* the size of extracted_sections owes to the slice.
every_section_of(all_sections_with_scores) == all_sections_with_scores

\* line 458: all_sections_with_scores[:12]
top_sections_of(all_sections_with_scores) ==
    SubSeq(all_sections_with_scores, 1, Min(12, Len(all_sections_with_scores)))

\* what process_collection returns when it returns a dictionary
CollectionOutput(collection) ==
    LET persona_role == collection.persona
        task_description == collection.task
        existing == SelectSeq(collection.documents, LAMBDA d : d.exists)
        Output(top_sections) ==
            [ kind |-> "output",
              metadata |-> [ input_documents |->
                                 [i \in 1..Len(existing) |-> existing[i].filename],
                             persona         |-> persona_role,
                             job_to_be_done  |-> task_description ],
              extracted_sections |->
                  [i \in 1..Len(top_sections) |->
                      [ document        |-> top_sections[i].document,
                        section_title   |-> SubSeq(top_sections[i].title, 1,
                                                   Min(80, Len(top_sections[i].title))),
                        importance_rank |-> i,
                        page_number     |-> top_sections[i].page ]],
              subsection_analysis |->
                  analyze_subsections(top_sections, persona_role, task_description) ]
    IN  With(rank_sections(collect_sections(collection.documents, persona_role)),
             LAMBDA all_sections_with_scores :
                 Output(top_sections_of(all_sections_with_scores)))

ReturnsNone == [kind |-> "none"]

Raises == [kind |-> "raised"]

\* process_collection: None without a readable manifest; a manifest that is no
\* JSON object makes input_data.get raise; a listed PDF that does not exist is
\* passed over with a warning
process_collection(collection) ==
    IF collection.manifest \in {"missing", "invalid"} THEN ReturnsNone
    ELSE IF collection.manifest = "not_object" THEN Raises
    ELSE CollectionOutput(collection)

\* "if result:" of line 514: the dictionary process_collection builds has three
\* keys, so it is true whatever its lists hold
IsTruthyResult(r) == r.kind = "output"

-----------------------------------------------------------------------------
(* The outline pipeline: a document is handed to one of the extractors.    *)
(* The documents have two pages, 1000 points high, with up to MaxSpans     *)
(* spans between them, in any order; no span occurs twice, since two spans *)
(* of a page differ in their boxes.                                        *)

MaxSpans == 5

Span(text, size, font, flags, x0, y0) ==
    [text |-> text, size |-> size, font |-> font, flags |-> flags,
     bbox |-> <<x0, y0, x0 + 10 * Len(text), y0 + size>>]

Page1Spans == {
    Span("Machine Learning Survey", 24, "Helvetica-Bold", 16, 72, 50),
    Span("Project Proposal", 24, "Helvetica-Bold", 0, 72, 50),
    Span("Grant Application Form", 24, "Helvetica", 0, 72, 90),
    Span("Summary", 14, "Helvetica-Bold", 0, 72, 500),
    Span(" SUMMARY ", 14, "Helvetica", 16, 72, 520) }

Page2Spans == {
    Span("1. Introduction", 16, "Helvetica-Bold", 0, 72, 100),
    Span("This is body text of the document.", 12, "Helvetica", 0, 72, 200),
    Span("ab", 12, "Helvetica", 0, 72, 300) }

\* what the readers do, <<fitz.open succeeds, get_text succeeds on page 2,
\* pdfplumber.open succeeds, page.chars succeeds on page 2>>
ReaderOutcomes == {<<TRUE, TRUE, TRUE, TRUE>>,
                   <<FALSE, TRUE, TRUE, TRUE>>, <<FALSE, TRUE, FALSE, TRUE>>,
                   <<FALSE, TRUE, TRUE, FALSE>>,
                   <<TRUE, FALSE, TRUE, TRUE>>, <<TRUE, FALSE, FALSE, TRUE>>,
                   <<TRUE, FALSE, TRUE, FALSE>>}

Document(o, s1, s2) ==
    [open_ok    |-> o[1],
     plumber_ok |-> o[3],
     pages      |-> << [ok |-> TRUE, height |-> 1000, chars_ok |-> TRUE, spans |-> s1],
                       [ok |-> o[2], height |-> 1000, chars_ok |-> o[4], spans |-> s2] >>]

NoResult == [title |-> None, outline |-> <<>>, raised |-> FALSE]

\* no call of a level classifier
NoCall == [text |-> "", font_size |-> 0, avg_size |-> [num |-> 0, den |-> 1],
           size_75th |-> 0, size_90th |-> 0, is_bold |-> FALSE]

NoLevel == [classifier |-> "none", level |-> 0, raised |-> FALSE]

ClassifyIdle == classify_call = NoCall /\ classify_result = NoLevel

NoValue == [op |-> "none"]

PersonaIdle == persona_call = NoValue /\ persona_result = NoValue

\* no entry point runs; an extractor has the default threshold
CliIdle ==
    /\ heading_confidence_threshold = DefaultConfidenceThreshold
    /\ command = [name |-> "none"]
    /\ pdf_files = <<>>
    /\ file_index = 1
    /\ attempted = <<>>
    /\ saved = <<>>
    /\ counts = [success_count |-> 0, error_count |-> 0]
    /\ cli_state = "idle"

\* no title function has run
TitleIdle == titles = <<>>

BatchIdle ==
    /\ collections = <<>>
    /\ next_index = 1
    /\ outputs = <<>>
    /\ failures = {}
    /\ driver = "idle"

\* no entry of the sequence occurs in it twice
DistinctSpans(s) == \A i, j \in 1..Len(s) : i # j => s[i] # s[j]

Init ==
    /\ \E k1 \in 0..MaxSpans : \E k2 \in 0..(MaxSpans - k1) :
       \E s1 \in [1..k1 -> Page1Spans] : \E s2 \in [1..k2 -> Page2Spans] :
       \E o \in ReaderOutcomes :
          /\ DistinctSpans(s1) /\ DistinctSpans(s2)
          /\ doc = Document(o, s1, s2)
    /\ extractor = "none"
    /\ pc = "start"
    /\ elements = <<>>
    /\ result = NoResult
    /\ ClassifyIdle
    /\ PersonaIdle
    /\ BatchIdle
    /\ CliIdle
    /\ TitleIdle

\* FastPDFHeadingExtractor.extract_headings of Challenge_1a/process_pdfs.py
ExtractHeadings1a ==
    /\ pc = "start"
    /\ extractor' = "fast1a"
    /\ elements' = extract_text_fast(doc).elements
    /\ result' = extract_headings_1a(doc)
    /\ pc' = "done"
    /\ UNCHANGED <<doc, classify_vars, persona_vars, batch_vars, cli_vars, title_vars>>

\* FastPDFHeadingExtractor.extract_headings of process_pdfs.py
ExtractHeadingsRoot ==
    /\ pc = "start"
    /\ extractor' = "fastroot"
    /\ elements' = extract_text_fast(doc).elements
    /\ result' = extract_headings_root(doc)
    /\ pc' = "done"
    /\ UNCHANGED <<doc, classify_vars, persona_vars, batch_vars, cli_vars, title_vars>>

\* PDFHeadingExtractor.extract_headings of pdf_heading_extractor.py
ExtractHeadingsFull ==
    /\ pc = "start"
    /\ extractor' = "full"
    /\ elements' = extract_text_elements(doc)
    /\ result' = extract_headings_full(doc)
    /\ pc' = "done"
    /\ UNCHANGED <<doc, classify_vars, persona_vars, batch_vars, cli_vars, title_vars>>

Next == ExtractHeadings1a \/ ExtractHeadingsRoot \/ ExtractHeadingsFull

Spec == Init /\ [][Next]_vars

-----------------------------------------------------------------------------
(* Properties of the outline pipeline.                                     *)

Done(x) == pc = "done" /\ extractor = x

ShortElements == SelectSeq(elements, LAMBDA e : Len(strip(e.text)) < 15)

TitleText == IF result.title = None THEN "" ELSE result.title[1]

TitleHasFormVocabulary ==
    \E w \in {"application", "form", "grant"} : Contains(lower(TitleText), w)

OutlineKey(entry) == <<strip(lower(entry.text)), entry.page>>

\* C1: a document from which no text element is extracted gets an empty title
\* ("" or null) and an empty outline from each of the three extractors, and no
\* exception leaves extract_headings.
C1_EmptyDocumentEmptyResult ==
    (pc = "done" /\ elements = <<>>)
        => /\ result.title \in {None, Some("")}
           /\ result.outline = <<>>
           /\ ~result.raised

\* a document whose reader fails, handled by the extractor of Challenge_1a
C1_Witness ==
    /\ Done("fast1a") /\ elements = <<>>
    /\ ~doc.open_ok /\ doc.pages[1].spans # <<>>
    /\ result.title = Some("")

\* C2: the outline of either FastPDFHeadingExtractor holds no two headings with
\* the same (lowercased trimmed text, page) pair.
C2_OutlineKeysUnique ==
    (Done("fast1a") \/ Done("fastroot"))
        => \A i, j \in 1..Len(result.outline) :
              i # j => OutlineKey(result.outline[i]) # OutlineKey(result.outline[j])

\* two page-1 elements with the same key, one of them in the outline
C2_Witness ==
    /\ Done("fast1a")
    /\ \E i, j \in 1..Len(elements) :
          /\ elements[i].text = "Summary" /\ elements[j].text = "SUMMARY"
          /\ elements[i].page_number = 1 /\ elements[j].page_number = 1
    /\ \E k \in 1..Len(result.outline) :
          OutlineKey(result.outline[k]) = <<"summary", 1>>

\* C3, as the code has it: when more than 40% of the elements have a trimmed
\* text shorter than 15 characters, or the title contains "application", "form"
\* or "grant" in any case, the outline of Challenge_1a is empty.
C3_FormGuardAbove40 ==
    (/\ Done("fast1a")
     /\ \/ Len(ShortElements) * 10 > 4 * Len(elements)
        \/ TitleHasFormVocabulary)
        => result.outline = <<>>

\* more than 40% short elements, no form vocabulary, a heading text among them
C3_Witness ==
    /\ Done("fast1a")
    /\ Len(ShortElements) * 10 > 4 * Len(elements)
    /\ ~TitleHasFormVocabulary
    /\ \E i \in 1..Len(elements) : elements[i].text = "Summary"
    /\ result.outline = <<>>

\* C3 as stated: at least 40% short elements, or form vocabulary in the title,
\* give an empty outline.
C3_FormGuardAtLeast40 ==
    (/\ Done("fast1a")
     /\ \/ Len(ShortElements) * 10 >= 4 * Len(elements)
        \/ TitleHasFormVocabulary)
        => result.outline = <<>>

\* element i is on page 1 at normalized Y 0.05 and every other element is
\* smaller by the given ratio num/den
LoneTopSpan(i, num, den) ==
    /\ elements[i].page_number = 1
    /\ PositionEqual(elements[i].position_y, [num |-> 5, den |-> 100])
    /\ \A j \in 1..Len(elements) :
          j # i => elements[j].font.size * den < elements[i].font.size * num

\* C6: a single page-1 span T at the largest size and normalized Y 0.05,
\* smaller text elsewhere, gives the title T exactly and no outline entry
\* from that span.
C6_LoneSpanIsTitleExactly ==
    \A i \in 1..Len(elements) :
        (Done("fast1a") /\ LoneTopSpan(i, 1, 1))
            => /\ result.title = Some(elements[i].text)
               /\ \A k \in 1..Len(result.outline) :
                     result.outline[k].text # elements[i].text


-----------------------------------------------------------------------------
(* The level classifiers, called on their own: a text, a font size, the    *)
(* document's average size (a fraction of whole points) and, for the       *)
(* classifier of Challenge_1a, the two size percentiles and the boldness.  *)

MaxFontSize == 20

ClassifyTexts == {"1. Introduction", "12. Results and discussion", "INTRODUCTION",
                  "Introduction", "2.1 Methods", " 3.2 Evaluation ", "Summary",
                  "Results", "Timeline:", "body text here"}

ClassifySizes == 10..MaxFontSize

\* averages 12, 12.5 and 40/3
ClassifyAverages == {[num |-> 12, den |-> 1], [num |-> 25, den |-> 2], [num |-> 40, den |-> 3]}

ClassifyPercentiles == {12, 16}

OutlineIdle ==
    /\ doc = [open_ok |-> TRUE, plumber_ok |-> TRUE, pages |-> <<>>]
    /\ extractor = "none"
    /\ pc = "idle"
    /\ elements = <<>>
    /\ result = NoResult

ClassifyInit ==
    /\ \E t \in ClassifyTexts : \E f \in ClassifySizes : \E a \in ClassifyAverages :
       \E p75 \in ClassifyPercentiles : \E p90 \in ClassifyPercentiles : \E b \in BOOLEAN :
          /\ p75 <= p90
          /\ classify_call = [text |-> t, font_size |-> f, avg_size |-> a,
                              size_75th |-> p75, size_90th |-> p90, is_bold |-> b]
    /\ classify_result = NoLevel
    /\ OutlineIdle
    /\ PersonaIdle
    /\ BatchIdle
    /\ CliIdle
    /\ TitleIdle

\* FastPDFHeadingExtractor._classify_level_fast of process_pdfs.py
ClassifyLevelFast ==
    /\ classify_result = NoLevel
    /\ classify_result' =
          IF classify_level_fast_raises(classify_call.text, classify_call.avg_size)
          THEN [classifier |-> "classify_level_fast", level |-> 0, raised |-> TRUE]
          ELSE [classifier |-> "classify_level_fast",
                level |-> classify_level_fast(classify_call.text, classify_call.font_size,
                                              classify_call.avg_size),
                raised |-> FALSE]
    /\ UNCHANGED <<classify_call, outline_vars, persona_vars, batch_vars, cli_vars, title_vars>>

\* FastPDFHeadingExtractor._classify_heading_level_improved of Challenge_1a
ClassifyHeadingLevelImproved ==
    /\ classify_result = NoLevel
    /\ classify_result' =
          IF classify_improved_raises(classify_call.text, classify_call.avg_size)
          THEN [classifier |-> "classify_heading_level_improved", level |-> 0, raised |-> TRUE]
          ELSE [classifier |-> "classify_heading_level_improved",
                level |-> classify_heading_level_improved(
                              classify_call.text, classify_call.font_size,
                              classify_call.avg_size, classify_call.size_75th,
                              classify_call.size_90th, classify_call.is_bold),
                raised |-> FALSE]
    /\ UNCHANGED <<classify_call, outline_vars, persona_vars, batch_vars, cli_vars, title_vars>>

ClassifyNext == ClassifyLevelFast \/ ClassifyHeadingLevelImproved

SpecClassify == ClassifyInit /\ [][ClassifyNext]_vars

\* the text of the call, trimmed, matches a level-1 pattern of process_pdfs.py:
\* a number, a period, white space and a capital; ten capitals and blanks or
\* more; one of the five section names
CallMatchesLevel1 ==
    LET t == strip(classify_call.text) IN
    MatchesNumberedCap(t) \/ MatchesAllCaps(t) \/ MatchesSectionName(t)

\* it matches the level-2 pattern: number, period, number, white space, capital
CallMatchesLevel2 == MatchesSubNumbered(strip(classify_call.text))

\* the level of the size ladder: the double font_size / avg_size above 1.5,
\* 1.2, 1.1
CallSizeLevel ==
    LET RatioAbove(num, den) ==
            SizeRatioCmp(classify_call.font_size, classify_call.avg_size, num, den) > 0
    IN  IF RatioAbove(15, 10) THEN 1
        ELSE IF RatioAbove(12, 10) THEN 2
        ELSE IF RatioAbove(11, 10) THEN 3
        ELSE 0

RanClassifier(c) == classify_result.classifier = c /\ ~classify_result.raised

\* C4: in _classify_level_fast of process_pdfs.py a text matching a level-1
\* pattern gets level 1 whatever the sizes, a text matching the level-2 pattern
\* and no level-1 pattern gets level 2, and the size ratio decides only when no
\* pattern matches.
C4_PatternsBeforeSize ==
    RanClassifier("classify_level_fast")
        => /\ CallMatchesLevel1 => classify_result.level = 1
           /\ (CallMatchesLevel2 /\ ~CallMatchesLevel1) => classify_result.level = 2
           /\ (~CallMatchesLevel1 /\ ~CallMatchesLevel2)
                 => classify_result.level = CallSizeLevel

\* "1. Introduction" at a size ratio of 1.25, where the size ladder says 2
C4_Witness ==
    /\ RanClassifier("classify_level_fast")
    /\ classify_call.text = "1. Introduction"
    /\ CallSizeLevel = 2
    /\ classify_result.level = 1

\* C5: _classify_heading_level_improved of Challenge_1a gives "1. Introduction"
\* level 1 for every font size, average size, percentile pair and boldness.
C5_NumberedHeaderIsLevel1 ==
    (RanClassifier("classify_heading_level_improved")
        /\ classify_call.text = "1. Introduction")
        => classify_result.level = 1


-----------------------------------------------------------------------------
(* The methods of PersonaBasedAnalyzer, called on their own: on a text of  *)
(* up to MaxSentences sentences, on up to MaxBlocks text blocks, on up to  *)
(* MaxSections ranked sections.                                            *)

MaxSentences == 3

MaxBlocks == 4

MaxSections == 4

SentenceUniverse == {
    "Serve the vegetarian quinoa salad at the buffet",
    "Grill the chicken with rice for 20 minutes",
    "Our old dog sleeps under a big yellow sun all day long",
    "Add salt",
    "Plan a group tour to visit the old city museum" }

TextOf(sentences) == IF sentences = <<>> THEN "" ELSE join(". ", sentences) \o "."

Personas == {"Food Contractor", "Travel Planner", "HR Professional"}

BuffetTask == "Prepare a vegetarian buffet-style dinner menu for a corporate gathering, including gluten-free items."

TripTask == "Plan a trip of 4 days for a group of 10 college friends."

Block(text, font_size, font, page) ==
    [text |-> text, page |-> page, font_size |-> font_size, font_name |-> font,
     is_bold |-> Contains(lower(font), "bold"), bbox |-> <<72, 100, 300, 100 + font_size>>]

BlockUniverse == {
    Block("Vegetarian Buffet Menu", 14, "Helvetica-Bold", 1),
    Block("Dinner: Main Dishes", 12, "Helvetica-Bold", 2),
    Block("Note:", 14, "Helvetica-Bold", 1),
    Block("Annual Report", 14, "Helvetica-Bold", 1),
    Block("Serve the vegetarian quinoa salad at the buffet.", 11, "Helvetica", 1) }

RankedSection(title, text, score, page, document) ==
    [title |-> title, page |-> page, content |-> <<title, text>>,
     importance_score |-> score, document |-> document]

BuffetText == "Serve the vegetarian quinoa salad at the buffet. Offer vegan lentils and rice at the corporate dinner."

SectionUniverse == {
    RankedSection("Vegetarian Buffet Menu", BuffetText, 9, 1, "menu.pdf"),
    RankedSection("Dinner: Main Dishes", BuffetText, 6, 2, "menu.pdf"),
    RankedSection("Gluten-Free Sides", BuffetText, 6, 3, "menu.pdf"),
    RankedSection("Corporate Dinner Desserts", BuffetText, 5, 5, "menu.pdf"),
    RankedSection("Vegetarian Buffet Menu", BuffetText, 9, 1, "lunch.pdf"),
    RankedSection("Kitchen Notes", "Add salt.", 5, 4, "menu.pdf") }

PersonaInit ==
    /\ \/ \E n \in 0..MaxSentences : \E ss \in [1..n -> SentenceUniverse] :
          \E p \in Personas : \E t \in {BuffetTask, TripTask} :
             /\ DistinctSpans(ss)
             /\ persona_call = [op |-> "text", text |-> TextOf(ss), persona |-> p, task |-> t]
       \/ \E n \in 0..MaxBlocks : \E bs \in [1..n -> BlockUniverse] :
          \E p \in {"Food Contractor", "Travel Planner"} :
             /\ DistinctSpans(bs)
             /\ persona_call = [op |-> "blocks", text_blocks |-> bs, persona |-> p]
       \/ \E n \in 0..MaxSections : \E ss \in [1..n -> SectionUniverse] :
             /\ DistinctSpans(ss)
             /\ persona_call = [op |-> "sections", sections |-> ss,
                             persona |-> "Food Contractor", task |-> BuffetTask]
    /\ persona_result = NoValue
    /\ OutlineIdle
    /\ ClassifyIdle
    /\ BatchIdle
    /\ CliIdle
    /\ TitleIdle

\* PersonaBasedAnalyzer.refine_text_for_persona
RefineTextForPersona ==
    /\ persona_call.op = "text" /\ persona_result = NoValue
    /\ persona_result' =
          [op |-> "refine_text_for_persona",
           value |-> refine_text_for_persona(persona_call.text, persona_call.persona,
                                             persona_call.task)]
    /\ UNCHANGED <<persona_call, outline_vars, classify_vars, batch_vars, cli_vars, title_vars>>

\* PersonaBasedAnalyzer._calculate_task_relevance
CalculateTaskRelevance ==
    /\ persona_call.op = "text" /\ persona_result = NoValue
    /\ persona_result' =
          [op |-> "calculate_task_relevance",
           value |-> calculate_task_relevance(persona_call.text, persona_call.persona,
                                              persona_call.task)]
    /\ UNCHANGED <<persona_call, outline_vars, classify_vars, batch_vars, cli_vars, title_vars>>

\* PersonaBasedAnalyzer.identify_sections
IdentifySections ==
    /\ persona_call.op = "blocks" /\ persona_result = NoValue
    /\ persona_result' =
          [op |-> "identify_sections",
           value |-> identify_sections(persona_call.text_blocks, persona_call.persona)]
    /\ UNCHANGED <<persona_call, outline_vars, classify_vars, batch_vars, cli_vars, title_vars>>

\* PersonaBasedAnalyzer.analyze_subsections
AnalyzeSubsections ==
    /\ persona_call.op = "sections" /\ persona_result = NoValue
    /\ persona_result' =
          [op |-> "analyze_subsections",
           value |-> analyze_subsections(persona_call.sections, persona_call.persona,
                                         persona_call.task)]
    /\ UNCHANGED <<persona_call, outline_vars, classify_vars, batch_vars, cli_vars, title_vars>>

PersonaNext ==
    RefineTextForPersona \/ CalculateTaskRelevance \/ IdentifySections \/ AnalyzeSubsections

SpecPersona == PersonaInit /\ [][PersonaNext]_vars

(***************************************************************************)
(* The persona scoring claims                                              *)
(***************************************************************************)

Returned(op) == persona_result.op = op

\* the number of entries of the analysis taken from the document
EntriesOf(subsection_analysis, document) ==
    Cardinality({i \in 1..Len(subsection_analysis) :
                    subsection_analysis[i].document = document})

\* the sections of the call that analyze_subsections would take from the
\* document if nothing limited it
UsableSections(document) ==
    {i \in 1..Len(persona_call.sections) :
        /\ persona_call.sections[i].document = document
        /\ Len(refine_text_for_persona(join(" ", persona_call.sections[i].content),
                                       persona_call.persona, persona_call.task)) > 80}

\* C7: whatever list of ranked sections analyze_subsections is given, at most
\* 3 entries of the subsection analysis it returns have the same source
\* document.
C7_AtMostThreePerDocument ==
    Returned("analyze_subsections") =>
        \A i \in 1..Len(persona_result.value) :
            EntriesOf(persona_result.value, persona_result.value[i].document) <= 3

\* four usable sections of menu.pdf were passed and three of them were taken
C7_Witness ==
    /\ Returned("analyze_subsections")
    /\ Cardinality(UsableSections("menu.pdf")) >= 4
    /\ EntriesOf(persona_result.value, "menu.pdf") = 3

\* relevance_score of a sentence for the persona and task of the call
CallScore(sentence) ==
    relevance_score(sentence, persona_call.persona,
                    get_persona_keywords(persona_call.persona),
                    task_keywords(persona_call.task))

\* C8: every sentence of the text refine_text_for_persona returns has a
\* relevance score of at least 1 for the persona keywords, the task keywords
\* and the bonuses; a sentence scoring below 1 is never part of the output.
C8_RefinedSentencesScoreAtLeastOne ==
    Returned("refine_text_for_persona") =>
        LET kept == split_sentences(persona_result.value) IN
        \A i \in 1..Len(kept) : CallScore(kept[i]) >= 1

\* the text had a sentence long enough to be taken whose score is below 1, and
\* the refined text is made of the other sentences
C8_Witness ==
    /\ Returned("refine_text_for_persona")
    /\ persona_result.value # ""
    /\ LET sentences == split_sentences(persona_call.text) IN
       \E i \in 1..Len(sentences) :
           /\ Len(sentences[i]) >= 30
           /\ CallScore(sentences[i]) < 1
           /\ ~Contains(persona_result.value, sentences[i])

\* C9: _calculate_task_relevance returns a value of at least 0 for every text,
\* persona and task, also when the penalties for non-vegetarian content
\* outweigh the bonuses, and every importance score identify_sections assigns
\* to a section is at least 0.
C9_ScoresNeverNegative ==
    /\ Returned("calculate_task_relevance") => persona_result.value >= 0
    /\ Returned("identify_sections") =>
          /\ \A i \in 1..Len(persona_result.value) :
                persona_result.value[i].importance_score >= 0
          /\ LET potential_sections ==
                     potential_sections_loop(persona_call.text_blocks, <<>>, None) IN
             \A i \in 1..Len(potential_sections) :
                 section_score(potential_sections[i], persona_call.persona) >= 0

\* the penalties of the text outweigh its bonuses and the value returned is 0
C9_Witness ==
    /\ Returned("calculate_task_relevance")
    /\ TaskScore(persona_call.text, persona_call.persona, persona_call.task) < 0
    /\ CountPresent(<<"rice">>, lower(persona_call.text)) > 0
    /\ persona_result.value = 0

(***************************************************************************)
(* The batch driver of Challenge 1b: process_challenge_1b goes through its *)
(* three collections in order.  A collection is                            *)
(* [dir_exists, manifest, documents, persona, task]: manifest tells whether*)
(* challenge1b_input.json is missing, is no JSON ("invalid"), is JSON but  *)
(* no object ("not_object") or is an object ("ok") with the documents,     *)
(* persona role and task given; a document is [filename, exists, pdf].     *)
(***************************************************************************)

\* line 498: the collections list of process_challenge_1b
NumCollections == 3

MenuPdf ==
    [open_ok |-> TRUE,
     pages   |-> << [ok |-> TRUE, height |-> 1000, chars_ok |-> TRUE,
                     spans |-> << Span("Vegetarian Buffet Menu", 14, "Helvetica-Bold", 0, 72, 100),
                                  Span(BuffetText, 11, "Helvetica", 0, 72, 200) >>] >>]

BrokenPdf == [open_ok |-> FALSE, pages |-> <<>>]

NoPdf == [open_ok |-> FALSE, pages |-> <<>>]

ListedDocument(filename, exists, pdf) ==
    [filename |-> filename, exists |-> exists, pdf |-> pdf]

GhostDocument == ListedDocument("ghost.pdf", FALSE, NoPdf)

GoneDocument == ListedDocument("gone.pdf", FALSE, NoPdf)

MenuDocument == ListedDocument("menu.pdf", TRUE, MenuPdf)

BrokenDocument == ListedDocument("broken.pdf", TRUE, BrokenPdf)

ManifestDocuments == {
    <<>>,
    <<GhostDocument>>,
    <<GhostDocument, GoneDocument>>,
    <<MenuDocument>>,
    <<GhostDocument, MenuDocument>>,
    <<BrokenDocument>> }

Collection(dir_exists, manifest, documents) ==
    [dir_exists |-> dir_exists, manifest |-> manifest, documents |-> documents,
     persona |-> "Food Contractor", task |-> BuffetTask]

CollectionUniverse ==
    {Collection(FALSE, "missing", <<>>)}
    \cup {Collection(TRUE, m, <<>>) : m \in {"missing", "invalid", "not_object"}}
    \cup {Collection(TRUE, "ok", ds) : ds \in ManifestDocuments}

BatchInit ==
    /\ collections \in [1..NumCollections -> CollectionUniverse]
    /\ next_index = 1
    /\ outputs = <<>>
    /\ failures = {}
    /\ driver = "running"
    /\ OutlineIdle
    /\ ClassifyIdle
    /\ PersonaIdle
    /\ CliIdle
    /\ TitleIdle

InLoop == driver = "running" /\ next_index <= NumCollections

\* lines 505-507: a collection without a directory is passed over
SkipCollection ==
    /\ InLoop
    /\ ~collections[next_index].dir_exists
    /\ next_index' = next_index + 1
    /\ UNCHANGED <<collections, outputs, failures, driver,
                   outline_vars, classify_vars, persona_vars, cli_vars, title_vars>>

\* lines 509-531: one collection is processed.  An exception of
\* process_collection is caught nowhere and ends the driver; a true result is
\* written to challenge1b_output.json, where a failing write is reported and
\* passed over; any other result is reported as a failure.
ProcessCollection ==
    /\ InLoop
    /\ collections[next_index].dir_exists
    /\ \E returned \in {process_collection(collections[next_index])} :
       \/ /\ returned = Raises
          /\ driver' = "crashed"
          /\ UNCHANGED <<next_index, outputs, failures>>
       \/ /\ returned # Raises /\ IsTruthyResult(returned)
          /\ \E write_ok \in BOOLEAN :
                outputs' = IF write_ok
                           THEN [i \in DOMAIN outputs \cup {next_index} |->
                                    IF i = next_index THEN returned ELSE outputs[i]]
                           ELSE outputs
          /\ next_index' = next_index + 1
          /\ UNCHANGED <<failures, driver>>
       \/ /\ returned # Raises /\ ~IsTruthyResult(returned)
          /\ failures' = failures \cup {next_index}
          /\ next_index' = next_index + 1
          /\ UNCHANGED <<outputs, driver>>
    /\ UNCHANGED <<collections, outline_vars, classify_vars, persona_vars, cli_vars, title_vars>>

\* lines 533-536: the loop is over and the summary is printed
FinishBatch ==
    /\ driver = "running"
    /\ next_index > NumCollections
    /\ driver' = "done"
    /\ UNCHANGED <<collections, next_index, outputs, failures,
                   outline_vars, classify_vars, persona_vars, cli_vars, title_vars>>

BatchNext == SkipCollection \/ ProcessCollection \/ FinishBatch

SpecBatch == BatchInit /\ [][BatchNext]_vars

\* the collections the driver is through with
Handled == {i \in 1..NumCollections : i < next_index}

\* the manifest of the collection is read and none of the PDFs it lists exists
ListsNoExistingPdf(c) ==
    /\ c.dir_exists
    /\ c.manifest = "ok"
    /\ \A k \in 1..Len(c.documents) : ~c.documents[k].exists

\* C10: a collection whose manifest lists no PDF that exists in its PDFs
\* directory is reported as a failure by process_collection, so the driver
\* takes its failure branch and writes no output for it, and the driver goes
\* on to the next collection without crashing.
C10_NoPdfCollectionFails ==
    /\ \A i \in Handled :
          ListsNoExistingPdf(collections[i]) =>
              i \in failures /\ i \notin DOMAIN outputs
    /\ (driver = "crashed" => ~ListsNoExistingPdf(collections[next_index]))

-----------------------------------------------------------------------------
(***************************************************************************)
(* The entry points that work on files: the extract and batch commands of  *)
(* main.py and main() of extract.py, which use PDFHeadingExtractor, and    *)
(* process_pdfs() of Challenge_1a/process_pdfs.py and of process_pdfs.py,  *)
(* each with the FastPDFHeadingExtractor of its file.  The command names   *)
(* are "extract", "batch", "extract_py", "process_pdfs" (Challenge_1a) and *)
(* "process_pdfs_root".  A file is [name, doc, writable]: doc is what the  *)
(* PDF readers give for it, writable tells whether its output file can be  *)
(* opened for writing.  The confidence threshold of a command is in        *)
(* thousandths.                                                            *)
(***************************************************************************)

MaxFiles == 2

\* Heading.to_dict of pdf_heading_extractor.py: round(confidence, 2) is kept
\* as its number of hundredths; font sizes are whole numbers, which
\* round(font_size, 1) keeps
heading_to_dict(h) ==
    [ text        |-> strip(h.text),
      level       |-> h.level,
      page        |-> h.page,
      font_size   |-> h.font_size,
      font_weight |-> h.font_weight,
      confidence  |-> FloatHundredths(h.confidence) ]

\* ExtractionResult.to_dict, without document_info and extraction_stats
result_to_dict(r) == [title |-> r.title, headings |-> MapSeq(r.outline, heading_to_dict)]

\* what json.dump writes in process_pdfs()
outline_json(r) == [title |-> r.title, outline |-> r.outline]

ReportPage1 == << Span("Machine Learning Survey", 24, "Helvetica-Bold", 16, 72, 50),
                  Span("Summary", 14, "Helvetica-Bold", 0, 72, 500) >>

ReportPage2 == << Span("1. Introduction", 16, "Helvetica-Bold", 0, 72, 100),
                  Span("This is body text of the document.", 12, "Helvetica", 0, 72, 200) >>

\* a document every reader reads, one no reader opens, one whose second page
\* the first reader fails on
FileDocuments == { Document(<<TRUE, TRUE, TRUE, TRUE>>, ReportPage1, ReportPage2),
                   Document(<<FALSE, TRUE, FALSE, TRUE>>, ReportPage1, ReportPage2),
                   Document(<<TRUE, FALSE, TRUE, TRUE>>, ReportPage1, ReportPage2) }

PdfFile(name, d, writable) == [name |-> name, doc |-> d, writable |-> writable]

FileUniverse == {PdfFile("report.pdf", d, w) : d \in FileDocuments, w \in BOOLEAN}

\* the values of --confidence-threshold: below the range, its ends, the default,
\* above the range
ThresholdOptions == {-100, 0, DefaultConfidenceThreshold, 1000, 1500}

NoCounts == [success_count |-> 0, error_count |-> 0]

CliInit ==
    /\ \/ \E f \in FileUniverse \cup {PdfFile("notes.txt", d, TRUE) : d \in FileDocuments} :
          \E t \in ThresholdOptions :
             /\ command = [name |-> "extract", confidence_threshold |-> t]
             /\ pdf_files = <<f>>
       \/ \E n \in 0..MaxFiles : \E fs \in [1..n -> FileUniverse] :
          \E t \in ThresholdOptions :
             /\ command = [name |-> "batch", confidence_threshold |-> t]
             /\ pdf_files = fs
       \/ \E f \in FileUniverse \cup {PdfFile("notes.txt", d, TRUE) : d \in FileDocuments} :
             /\ command = [name |-> "extract_py"]
             /\ pdf_files = <<f>>
       \/ \E n \in 0..MaxFiles : \E fs \in [1..n -> FileUniverse] :
          \E name \in {"process_pdfs", "process_pdfs_root"} :
             /\ command = [name |-> name]
             /\ pdf_files = fs
    /\ heading_confidence_threshold = DefaultConfidenceThreshold
    /\ file_index = 1
    /\ attempted = <<>>
    /\ saved = <<>>
    /\ counts = NoCounts
    /\ cli_state = "start"
    /\ OutlineIdle
    /\ ClassifyIdle
    /\ PersonaIdle
    /\ BatchIdle
    /\ TitleIdle

Starting(name) == cli_state = "start" /\ command.name = name

InFileLoop(name) ==
    cli_state = "running" /\ command.name = name /\ file_index <= Len(pdf_files)

AfterFileLoop(name) ==
    cli_state = "running" /\ command.name = name /\ file_index > Len(pdf_files)

\* the output of the file the loop is at, written
SavedWith(output) ==
    [i \in DOMAIN saved \cup {file_index} |-> IF i = file_index THEN output ELSE saved[i]]

\* main.py lines 42-44: the test of the extract command
ThresholdOutOfRange(t) == t < 0 \/ t > 1000

\* main.py lines 37-66 of extract: the inputs are validated and the extractor
\* is made with the threshold of the command
ExtractStart ==
    /\ Starting("extract")
    /\ IF \/ ~endswith(lower(pdf_files[1].name), ".pdf")
          \/ ThresholdOutOfRange(command.confidence_threshold)
       THEN /\ cli_state' = "rejected"
            /\ UNCHANGED heading_confidence_threshold
       ELSE /\ cli_state' = "running"
            /\ heading_confidence_threshold' = command.confidence_threshold
    /\ UNCHANGED <<command, pdf_files, file_index, attempted, saved, counts,
                   outline_vars, classify_vars, persona_vars, batch_vars, title_vars>>

\* main.py lines 68-82 of extract: extraction, then save_json, which reports a
\* failing write in its own handler
ExtractFile ==
    /\ InFileLoop("extract")
    /\ attempted' = Append(attempted, file_index)
    /\ \E r \in {extract_headings_full(pdf_files[file_index].doc)} :
          saved' = IF pdf_files[file_index].writable
                   THEN SavedWith(result_to_dict(r)) ELSE saved
    /\ file_index' = file_index + 1
    /\ cli_state' = "done"
    /\ UNCHANGED <<heading_confidence_threshold, command, pdf_files, counts,
                   outline_vars, classify_vars, persona_vars, batch_vars, title_vars>>

\* extract.py lines 25-31 of main: a file that is no PDF ends main() with
\* sys.exit(1)
ExtractPyStart ==
    /\ Starting("extract_py")
    /\ cli_state' = IF endswith(lower(pdf_files[1].name), ".pdf") THEN "running" ELSE "crashed"
    /\ UNCHANGED <<heading_confidence_threshold, command, pdf_files, file_index,
                   attempted, saved, counts,
                   outline_vars, classify_vars, persona_vars, batch_vars, title_vars>>

\* extract.py lines 33-51 of main: the extractor is made with its default
\* threshold; extract_headings handles its exceptions.  The open() of line 43
\* is in the try block of line 33, whose handler ends main() with sys.exit(1).
ExtractPyFile ==
    /\ InFileLoop("extract_py")
    /\ attempted' = Append(attempted, file_index)
    /\ \E r \in {extract_headings_full(pdf_files[file_index].doc)} :
          IF pdf_files[file_index].writable
          THEN /\ saved' = SavedWith(result_to_dict(r))
               /\ file_index' = file_index + 1
               /\ cli_state' = "done"
          ELSE /\ cli_state' = "crashed"
               /\ UNCHANGED <<saved, file_index>>
    /\ UNCHANGED <<heading_confidence_threshold, command, pdf_files, counts,
                   outline_vars, classify_vars, persona_vars, batch_vars, title_vars>>

\* main.py lines 94-114 of batch: without files the command returns; otherwise
\* the extractor is made with the threshold of the command, which is not tested
BatchStart ==
    /\ Starting("batch")
    /\ IF pdf_files = <<>>
       THEN /\ cli_state' = "done"
            /\ UNCHANGED heading_confidence_threshold
       ELSE /\ cli_state' = "running"
            /\ heading_confidence_threshold' = command.confidence_threshold
    /\ UNCHANGED <<command, pdf_files, file_index, attempted, saved, counts,
                   outline_vars, classify_vars, persona_vars, batch_vars, title_vars>>

\* main.py lines 119-135 of batch: one file.  extract_headings and save_json
\* both handle their exceptions, so the handler of lines 131-133 has nothing
\* to catch and the file counts as a success.
BatchFile ==
    /\ InFileLoop("batch")
    /\ attempted' = Append(attempted, file_index)
    /\ \E r \in {extract_headings_full(pdf_files[file_index].doc)} :
          saved' = IF pdf_files[file_index].writable
                   THEN SavedWith(result_to_dict(r)) ELSE saved
    /\ counts' = [counts EXCEPT !.success_count = @ + 1]
    /\ file_index' = file_index + 1
    /\ UNCHANGED <<heading_confidence_threshold, command, pdf_files, cli_state,
                   outline_vars, classify_vars, persona_vars, batch_vars, title_vars>>

\* main.py lines 137-141 of batch: the summary
BatchFinish ==
    /\ AfterFileLoop("batch")
    /\ cli_state' = "done"
    /\ UNCHANGED <<heading_confidence_threshold, command, pdf_files, file_index,
                   attempted, saved, counts,
                   outline_vars, classify_vars, persona_vars, batch_vars, title_vars>>

\* Challenge_1a/process_pdfs.py lines 373-394: without files the function returns
PdfsStart ==
    /\ Starting("process_pdfs")
    /\ cli_state' = IF pdf_files = <<>> THEN "done" ELSE "running"
    /\ UNCHANGED <<heading_confidence_threshold, command, pdf_files, file_index,
                   attempted, saved, counts,
                   outline_vars, classify_vars, persona_vars, batch_vars, title_vars>>

\* Challenge_1a/process_pdfs.py lines 396-416: one file.  extract_headings
\* handles its exceptions; the open() of line 408 is in no try block, so a
\* failing write leaves process_pdfs() as an exception.
PdfsFile ==
    /\ InFileLoop("process_pdfs")
    /\ attempted' = Append(attempted, file_index)
    /\ \E r \in {extract_headings_1a(pdf_files[file_index].doc)} :
          IF pdf_files[file_index].writable
          THEN /\ saved' = SavedWith(outline_json(r))
               /\ file_index' = file_index + 1
               /\ UNCHANGED cli_state
          ELSE /\ cli_state' = "crashed"
               /\ UNCHANGED <<saved, file_index>>
    /\ UNCHANGED <<heading_confidence_threshold, command, pdf_files, counts,
                   outline_vars, classify_vars, persona_vars, batch_vars, title_vars>>

\* Challenge_1a/process_pdfs.py lines 418-422: the summary
PdfsFinish ==
    /\ AfterFileLoop("process_pdfs")
    /\ cli_state' = "done"
    /\ UNCHANGED <<heading_confidence_threshold, command, pdf_files, file_index,
                   attempted, saved, counts,
                   outline_vars, classify_vars, persona_vars, batch_vars, title_vars>>

\* process_pdfs.py lines 263-285: without files the function returns
RootPdfsStart ==
    /\ Starting("process_pdfs_root")
    /\ cli_state' = IF pdf_files = <<>> THEN "done" ELSE "running"
    /\ UNCHANGED <<heading_confidence_threshold, command, pdf_files, file_index,
                   attempted, saved, counts,
                   outline_vars, classify_vars, persona_vars, batch_vars, title_vars>>

\* process_pdfs.py lines 287-307: one file, with the extractor of that file.
\* extract_headings handles its exceptions; the open() of line 299 is in no try
\* block, so a failing write leaves process_pdfs() as an exception.
RootPdfsFile ==
    /\ InFileLoop("process_pdfs_root")
    /\ attempted' = Append(attempted, file_index)
    /\ \E r \in {extract_headings_root(pdf_files[file_index].doc)} :
          IF pdf_files[file_index].writable
          THEN /\ saved' = SavedWith(outline_json(r))
               /\ file_index' = file_index + 1
               /\ UNCHANGED cli_state
          ELSE /\ cli_state' = "crashed"
               /\ UNCHANGED <<saved, file_index>>
    /\ UNCHANGED <<heading_confidence_threshold, command, pdf_files, counts,
                   outline_vars, classify_vars, persona_vars, batch_vars, title_vars>>

\* process_pdfs.py lines 309-313: the summary
RootPdfsFinish ==
    /\ AfterFileLoop("process_pdfs_root")
    /\ cli_state' = "done"
    /\ UNCHANGED <<heading_confidence_threshold, command, pdf_files, file_index,
                   attempted, saved, counts,
                   outline_vars, classify_vars, persona_vars, batch_vars, title_vars>>

CliNext ==
    \/ ExtractStart \/ ExtractFile
    \/ ExtractPyStart \/ ExtractPyFile
    \/ BatchStart \/ BatchFile \/ BatchFinish
    \/ PdfsStart \/ PdfsFile \/ PdfsFinish
    \/ RootPdfsStart \/ RootPdfsFile \/ RootPdfsFinish

SpecCli == CliInit /\ [][CliNext]_vars

\* A command that can take its next step takes it: it starts, the loop goes to
\* the file it is at, and after the last file the summary is printed.  The
\* steps are told by the two variables every one of them changes.
progress_vars == <<cli_state, attempted>>

Proceed ==
    \/ /\ cli_state = "start"
       /\ cli_state' \in {"running", "rejected", "done", "crashed"}
       /\ attempted' = attempted
    \/ /\ cli_state = "running" /\ file_index <= Len(pdf_files)
       /\ attempted' = Append(attempted, file_index)
       /\ cli_state' \in {"running", "done", "crashed"}
    \/ /\ cli_state = "running" /\ file_index > Len(pdf_files)
       /\ cli_state' = "done"
       /\ attempted' = attempted

SpecCliFair == SpecCli /\ WF_progress_vars(Proceed)

(***************************************************************************)
(* The batch drivers                                                       *)
(***************************************************************************)

InBatchDriver == command.name \in {"batch", "process_pdfs", "process_pdfs_root"}

\* every file of the list has been handed to the extractor, in list order
AllAttemptedInOrder == attempted = Tuple([i \in 1..Len(pdf_files) |-> i])

\* C11: in the batch drivers (the batch command of main.py and process_pdfs()
\* of Challenge_1a and of the repository root) a failure while one document is
\* processed never leaves that document's iteration: every file of the list
\* is eventually attempted, in list order, whatever happened to the files
\* before it.
C11_EveryFileAttempted == InBatchDriver ~> AllAttemptedInOrder

\* C12: in process_challenge_1b a failure is confined to the collection or
\* document that caused it (missing or unparseable manifest, malformed
\* manifest fields, unreadable PDF): it never stops the driver, so when the
\* driver has ended every collection of the list has been gone through.
C12_FailureConfinedToCollection ==
    driver \in {"done", "crashed"} => Handled = 1..NumCollections

\* the elements of the pages within the page cap that the reader reads
ReadablePages(d, PageElements(_, _)) ==
    Flatten([p \in 1..Min(Len(d.pages), max_pages) |->
                IF d.pages[p].ok THEN PageElements(d.pages[p], p) ELSE <<>>])

\* the reader opens the document and raises on one of its pages
RaisesOnOnePage(d) ==
    d.open_ok /\ \E p \in 1..Min(Len(d.pages), max_pages) : ~d.pages[p].ok

\* every entry of s is an entry of t
AllReturned(s, t) == \A i \in 1..Len(s) : \E j \in 1..Len(t) : t[j] = s[i]

\* C13: span extraction fails soft per page: when the PDF reader raises on one
\* page, the elements of the other pages within the page cap are still
\* returned, by _extract_text_fast of Challenge_1a and by
\* _extract_text_elements of the full extractor.
C13_OtherPagesStillReturned ==
    /\ Done("fast1a") /\ RaisesOnOnePage(doc) =>
          AllReturned(ReadablePages(doc, FastPageElements), elements)
    /\ Done("full") /\ RaisesOnOnePage(doc) =>
          AllReturned(ReadablePages(doc, FullPageElements), elements)

\* the command takes --confidence-threshold and was given a value outside
\* the range from 0.0 to 1.0
HasOutOfRangeThreshold ==
    /\ command.name \in {"extract", "batch"}
    /\ ThresholdOutOfRange(command.confidence_threshold)

\* C14: a heading-confidence threshold outside [0.0, 1.0] is rejected before
\* any document is processed, by the extract and by the batch command of
\* main.py: with such a value no extraction is run and no output is written.
C14_OutOfRangeThresholdRejected ==
    HasOutOfRangeThreshold => attempted = <<>> /\ saved = <<>>

-----------------------------------------------------------------------------
(***************************************************************************)
(* The title functions, run more than once on one list of elements: the    *)
(* list is the variable elements, the titles returned are in titles.  A    *)
(* call gives [title, elements]: what it returns and the caller's list as  *)
(* the statements of the function leave it in the store; the next run is   *)
(* on that list.                                                           *)
(***************************************************************************)

TitleRuns == 2

\* Challenge_1a/process_pdfs.py line 79: the call of extract_headings, with the
\* largest font size of the list
title_fast_1a_call(elems) ==
    run_title_fast_1a(elems, MaxOfSeq(MapSeq(elems, LAMBDA e : e.font.size)))

\* process_pdfs.py line 79: the call of extract_headings
title_fast_root_call(elems) ==
    run_title_fast_root(elems, MaxOfSeq(MapSeq(elems, LAMBDA e : e.font.size)))

\* pdf_heading_extractor.py line 146: the call of extract_headings
title_full_call(elems) == run_title_full(elems)

\* the list the extractor makes of the document
ExtractedElements(x, d) ==
    IF x = "full" THEN extract_text_elements(d) ELSE extract_text_fast(d).elements

TitleInit ==
    /\ \E k1 \in 1..MaxSpans : \E k2 \in 0..Min(1, MaxSpans - k1) :
       \E s1 \in [1..k1 -> Page1Spans] : \E s2 \in [1..k2 -> Page2Spans] :
          /\ DistinctSpans(s1)
          /\ doc = Document(<<TRUE, TRUE, TRUE, TRUE>>, s1, s2)
    /\ extractor \in {"fast1a", "fastroot", "full"}
    /\ elements = ExtractedElements(extractor, doc)
    /\ pc = "title"
    /\ result = NoResult
    /\ titles = <<>>
    /\ ClassifyIdle
    /\ PersonaIdle
    /\ BatchIdle
    /\ CliIdle

TitleRunOf(x) == pc = "title" /\ extractor = x /\ Len(titles) < TitleRuns

ExtractTitleFast1a ==
    /\ TitleRunOf("fast1a")
    /\ \E call \in {title_fast_1a_call(elements)} :
          /\ titles' = Append(titles, call.title)
          /\ elements' = call.elements
    /\ UNCHANGED <<extractor, doc, pc, result,
                   classify_vars, persona_vars, batch_vars, cli_vars>>

ExtractTitleFastRoot ==
    /\ TitleRunOf("fastroot")
    /\ \E call \in {title_fast_root_call(elements)} :
          /\ titles' = Append(titles, call.title)
          /\ elements' = call.elements
    /\ UNCHANGED <<extractor, doc, pc, result,
                   classify_vars, persona_vars, batch_vars, cli_vars>>

ExtractTitleFull ==
    /\ TitleRunOf("full")
    /\ \E call \in {title_full_call(elements)} :
          /\ titles' = Append(titles, call.title)
          /\ elements' = call.elements
    /\ UNCHANGED <<extractor, doc, pc, result,
                   classify_vars, persona_vars, batch_vars, cli_vars>>

TitleNext == ExtractTitleFast1a \/ ExtractTitleFastRoot \/ ExtractTitleFull

SpecTitle == TitleInit /\ [][TitleNext]_vars

\* C15: title extraction is idempotent: _extract_title_fast (Challenge_1a and
\* root) and _extract_title, run twice on the same element sequence, return
\* the same title both times, and a run leaves the sequence as it was, in
\* content and in order.  The second run is on the list as the statements of
\* the first run left it.
C15_TitleIdempotent ==
    pc = "title" =>
        /\ \A i, j \in 1..Len(titles) : titles[i] = titles[j]
        /\ elements = ExtractedElements(extractor, doc)

\* two runs of the Challenge_1a function returned a title; the list has an
\* element the comprehensions left out and two elements that are not in the
\* (Y, x) order the sort of line 161 puts its list in
C15_Witness ==
    /\ pc = "title" /\ extractor = "fast1a" /\ Len(titles) = 2
    /\ Truthy(titles[1])
    /\ \E i \in 1..Len(elements) : elements[i].page_number # 1
    /\ \E i, j \in 1..Len(elements) : i < j /\ TitleOrderLess(elements[j], elements[i])

-----------------------------------------------------------------------------
(***************************************************************************)
(* The outline of Challenge_1a on documents with a title, with texts that  *)
(* are part of the title or hold it, and with headings that differ in      *)
(* letter case only.                                                       *)
(***************************************************************************)

MaxTitledSpans == 4

TitledPage1Spans == {
    Span("Machine Learning Survey", 24, "Helvetica-Bold", 0, 72, 50),
    Span("Project Proposal", 24, "Helvetica-Bold", 0, 72, 90),
    Span("Learning Survey", 16, "Helvetica-Bold", 0, 72, 500),
    Span("Machine Learning Survey  Methods", 16, "Helvetica-Bold", 0, 72, 600),
    Span("Summary of Findings", 14, "Helvetica-Bold", 0, 72, 700),
    Span(" SUMMARY OF FINDINGS ", 16, "Helvetica-Bold", 0, 72, 750) }

TitledPage2Spans == {
    Span("1. Introduction", 16, "Helvetica-Bold", 0, 72, 100),
    Span("Background Notes", 12, "Helvetica-Bold", 0, 72, 200),
    Span("Summary of Findings", 14, "Helvetica-Bold", 0, 72, 300),
    Span("This is body text of the document.", 10, "Helvetica", 0, 72, 400) }

Outline1aInit ==
    /\ \E k1 \in 0..MaxTitledSpans : \E k2 \in 0..(MaxTitledSpans - k1) :
       \E s1 \in [1..k1 -> TitledPage1Spans] : \E s2 \in [1..k2 -> TitledPage2Spans] :
          /\ DistinctSpans(s1) /\ DistinctSpans(s2)
          /\ doc = Document(<<TRUE, TRUE, TRUE, TRUE>>, s1, s2)
    /\ extractor = "none"
    /\ pc = "start"
    /\ elements = <<>>
    /\ result = NoResult
    /\ ClassifyIdle
    /\ PersonaIdle
    /\ BatchIdle
    /\ CliIdle
    /\ TitleIdle

SpecOutline1a == Outline1aInit /\ [][ExtractHeadings1a]_vars

\* the element's text is contained in the title or contains it, letter case
\* apart
InOrAroundTitle(e, title) ==
    \/ Contains(lower(title), lower(e.text))
    \/ Contains(lower(e.text), lower(title))

\* the outline has an entry made of the element
InOutline(e, outline) ==
    \E k \in 1..Len(outline) :
        outline[k].text = strip(e.text) /\ outline[k].page = e.page_number

\* C16: once extract_headings of Challenge_1a has computed a non-empty title,
\* every element whose text is contained in the title and every element whose
\* text contains the title, letter case apart, is excluded from the outline.
C16_TitleTextsExcluded ==
    Done("fast1a") /\ Truthy(result.title) =>
        \A i \in 1..Len(elements) :
            InOrAroundTitle(elements[i], result.title[1]) =>
                ~InOutline(elements[i], result.outline)

\* the title is made of one span; the list has a text that is part of the
\* title and a text that holds the title, and the outline has other entries
C16_Witness ==
    /\ Done("fast1a")
    /\ result.title = Some("Machine Learning Survey  ")
    /\ \E i, j \in 1..Len(elements) :
          /\ elements[i].text = "Learning Survey"
          /\ elements[j].text = "Machine Learning Survey  Methods"
    /\ result.outline # <<>>

\* C17: the headings returned by extract_headings of PDFHeadingExtractor (the
\* full, confidence-based extractor) satisfy the uniqueness invariant: no two
\* of them share the pair (lowercased trimmed text, page).
C17_FullHeadingsUnique ==
    Done("full") =>
        \A i, j \in 1..Len(result.outline) :
            i # j => HeadingKey(result.outline[i]) # HeadingKey(result.outline[j])

\* the candidate headings of the elements, before the duplicates are removed
CandidatesOfElements ==
    IF elements = <<>> THEN <<>>
    ELSE candidate_headings_1a(
             elements,
             [num |-> SumSeq(MapSeq(elements, LAMBDA e : e.font.size)), den |-> Len(elements)],
             result.title)

\* the heading an outline entry was made of (to_dict trims its text)
HeadingOfEntry(entry) == [text |-> entry.text \o " ", page |-> entry.page]

\* C18: when several candidate headings of _find_headings_fast of
\* Challenge_1a share a key (lowercased trimmed text, page), the one kept, with
\* its level and its letter case, is the one that comes first in the sort
\* order of the outline (page, text length, text): no candidate with the key
\* of an outline entry comes before that entry in the sort order.
C18_FirstInSortOrderKept ==
    Done("fast1a") =>
        \A candidates \in {CandidatesOfElements} :
        \A k \in 1..Len(result.outline) : \A i \in 1..Len(candidates) :
            HeadingKey(candidates[i]) = HeadingKey(HeadingOfEntry(result.outline[k]))
                => ~OutlineOrderLess1a(candidates[i], HeadingOfEntry(result.outline[k]))

\* the first entry is not after the second one in the order (page, text
\* length, text)
InOutlineOrder(a, b) ==
    \/ a.page < b.page
    \/ a.page = b.page /\ Len(a.text) < Len(b.text)
    \/ a.page = b.page /\ Len(a.text) = Len(b.text) /\ ~StrLess(b.text, a.text)

\* C19: the outline of _find_headings_fast of Challenge_1a is ordered by
\* non-decreasing page, within a page by text length and then
\* lexicographically, whatever the order of the input elements.
C19_OutlineOrdered ==
    Done("fast1a") =>
        \A i, j \in 1..Len(result.outline) :
            i < j => InOutlineOrder(result.outline[i], result.outline[j])

\* an outline over two pages, with two entries of different lengths on one
\* page that are in the other order in the element list
C19_Witness ==
    /\ Done("fast1a")
    /\ \E i, j \in 1..Len(result.outline) : result.outline[i].page < result.outline[j].page
    /\ \E i, j \in 1..Len(result.outline) :
          /\ i < j
          /\ result.outline[i].page = result.outline[j].page
          /\ Len(result.outline[i].text) < Len(result.outline[j].text)
          /\ \E m, n \in 1..Len(elements) :
                /\ m < n
                /\ elements[m].text = result.outline[j].text
                /\ elements[n].text = result.outline[i].text
                /\ elements[m].page_number = elements[n].page_number

\* the page-1 title candidates of Challenge_1a, in (Y, x) order
TitleCandidatesOf(elems) ==
    LET first_page == SelectSeq(elems, LAMBDA e : e.page_number = 1)
        max_first_page_size == MaxOfSeq(MapSeq(first_page, LAMBDA e : e.font.size))
    IN  IF first_page = <<>> THEN <<>>
        ELSE SortStable(SelectSeq(first_page,
                                  LAMBDA e : IsTitleCandidate1a(e, max_first_page_size)),
                        TitleOrderLess)

\* the texts of the candidates, joined with single spaces, white-space runs
\* collapsed
JoinedCandidates(elems) ==
    strip(collapse_whitespace(
        join(" ", MapSeq(TitleCandidatesOf(elems), LAMBDA e : strip(e.text)))))

\* C20: every title returned by _extract_title_fast of Challenge_1a is
\* assembled only from its page-1 title candidates: apart from the white
\* space at its ends it is the single-space join, in (Y, x) order and with
\* white-space runs collapsed, of the candidates' texts, so it holds no text
\* that is not in the input elements.
C20_TitleFromCandidatesOnly ==
    pc = "title" /\ extractor = "fast1a" =>
        \A i \in 1..Len(titles) :
            Truthy(titles[i]) => strip(titles[i][1]) = JoinedCandidates(elements)

-----------------------------------------------------------------------------
(***************************************************************************)
(* The persona analyzer: segmentation, ranking and refined text            *)
(***************************************************************************)

\* the positions of the heading-like blocks
HeadingPositions(text_blocks) ==
    {i \in 1..Len(text_blocks) : is_proper_heading(text_blocks[i])}

\* the position of the next heading-like block after i, or the one after the
\* last block
NextHeadingAfter(text_blocks, i) ==
    LET later == {j \in HeadingPositions(text_blocks) : j > i} IN
    IF later = {} THEN Len(text_blocks) + 1
    ELSE CHOOSE j \in later : \A m \in later : j <= m

\* the section the heading-like block at position i opens: its own text and
\* the texts of the blocks after it up to the next heading-like block
SectionOpenedAt(text_blocks, i) ==
    [ title            |-> strip(text_blocks[i].text),
      page             |-> text_blocks[i].page,
      content          |-> Tuple([m \in 1..(NextHeadingAfter(text_blocks, i) - i) |->
                                     text_blocks[i + m - 1].text]),
      importance_score |-> 0 ]

\* C21: the segmentation of identify_sections partitions the input: every
\* heading-like block opens exactly one section; the content of the section
\* is the heading's text and, in extraction order, every block after it up to
\* the next heading-like block or the end of the input, and those blocks are
\* in no other section; the section open at the end of the input is kept;
\* blocks before the first heading-like block are in no section.
C21_SegmentationPartitions ==
    Returned("identify_sections") =>
        \A blocks \in {persona_call.text_blocks} :
        \A segments \in {potential_sections_loop(blocks, <<>>, None)} :
            /\ Len(segments) = Cardinality(HeadingPositions(blocks))
            /\ \A i \in HeadingPositions(blocks) :
                  segments[Cardinality({j \in HeadingPositions(blocks) : j <= i})]
                      = SectionOpenedAt(blocks, i)

\* a block before the first heading, a heading followed by a block that is
\* none, and a heading that is the last block
C21_Witness ==
    /\ Returned("identify_sections")
    /\ Len(persona_call.text_blocks) = 4
    /\ HeadingPositions(persona_call.text_blocks) = {2, 4}

\* a page of section headings without text of their own
HeadingPage(titles_of_page) ==
    [ok |-> TRUE, height |-> 1000, chars_ok |-> TRUE,
     spans |-> Tuple([i \in 1..Len(titles_of_page) |->
                         Span(titles_of_page[i], 14, "Helvetica-Bold", 0, 72, 100 * i)])]

StartersPdf ==
    [open_ok |-> TRUE,
     pages   |-> << HeadingPage(<<"Vegetarian Buffet Menu", "Lunch Menu">>),
                    HeadingPage(<<"Dinner Menu", "Breakfast">>),
                    HeadingPage(<<"Catering", "Cuisine", "Kitchen">>) >>]

MainsPdf ==
    [open_ok |-> TRUE,
     pages   |-> << HeadingPage(<<"Corporate Dinner Menu", "Vegan Dishes", "Meal Plan">>),
                    HeadingPage(<<"Portions", "Allergens", "Nutrition">>) >>]

\* a page whose first heading has a colon and no keyword, and whose second
\* heading is followed by three lines of body text
OfficePage ==
    [ok |-> TRUE, height |-> 1000, chars_ok |-> TRUE,
     spans |-> << Span("Opening Hours: Weekdays", 14, "Helvetica-Bold", 0, 72, 100),
                  Span("Staff Room", 14, "Helvetica-Bold", 0, 72, 200),
                  Span("Open at nine", 11, "Helvetica", 0, 72, 300),
                  Span("Close at five", 11, "Helvetica", 0, 72, 400),
                  Span("Closed on Sunday", 11, "Helvetica", 0, 72, 500) >>]

NotesPdf ==
    [open_ok |-> TRUE,
     pages   |-> << HeadingPage(<<"Annual Report", "Recipe Notes">>), OfficePage >>]

RankedDocuments == { ListedDocument("starters.pdf", TRUE, StartersPdf),
                     ListedDocument("mains.pdf", TRUE, MainsPdf),
                     ListedDocument("notes.pdf", TRUE, NotesPdf),
                     GhostDocument }

MaxListed == 3

\* the first collection has a manifest of up to MaxListed documents, in any
\* order; the other two collections have no directory
RankingInit ==
    /\ \E n \in 0..MaxListed : \E ds \in [1..n -> RankedDocuments] :
          /\ DistinctSpans(ds)
          /\ collections = << Collection(TRUE, "ok", ds),
                              Collection(FALSE, "missing", <<>>),
                              Collection(FALSE, "missing", <<>>) >>
    /\ next_index = 1
    /\ outputs = <<>>
    /\ failures = {}
    /\ driver = "running"
    /\ OutlineIdle
    /\ ClassifyIdle
    /\ PersonaIdle
    /\ CliIdle
    /\ TitleIdle

SpecRanking == RankingInit /\ [][BatchNext]_vars

\* the sections of the documents of the collection, in the order of the
\* manifest, as they are before the ranking
CollectedSections(collection) ==
    collect_sections(collection.documents, collection.persona)

\* the entry of extracted_sections that the section gives at the rank
EntryOf(section, rank) ==
    [ document        |-> section.document,
      section_title   |-> SubSeq(section.title, 1, Min(80, Len(section.title))),
      importance_rank |-> rank,
      page_number     |-> section.page ]

\* the collected sections an entry of extracted_sections can be made of
UnderlyingSections(entry, collected) ==
    {k \in 1..Len(collected) : EntryOf(collected[k], entry.importance_rank) = entry}

\* the importance score of the section the entry is made of
ScoreOfEntry(entry, collected) ==
    collected[CHOOSE k \in UnderlyingSections(entry, collected) : TRUE].importance_score

\* C22: for every collection, extracted_sections of the output of
\* process_collection has at most 12 entries, the entry at position i has
\* importance_rank i, and the importance scores of the underlying sections do
\* not increase along the list.
C22_TwelveRankedSections ==
    \A c \in DOMAIN outputs :
    \A entries \in {outputs[c].extracted_sections} :
    \A collected \in {CollectedSections(collections[c])} :
        /\ Len(entries) <= 12
        /\ \A i \in 1..Len(entries) :
              /\ entries[i].importance_rank = i
              /\ UnderlyingSections(entries[i], collected) # {}
        /\ \A i, j \in 1..Len(entries) :
              i < j => ScoreOfEntry(entries[i], collected)
                           >= ScoreOfEntry(entries[j], collected)

\* the documents of the collection give thirteen sections, which are not
\* collected in the order of their scores, and the output is written
C22_Witness ==
    /\ 1 \in DOMAIN outputs
    /\ Len(CollectedSections(collections[1])) = 13
    /\ Len(outputs[1].extracted_sections) = 12
    /\ \E i, j \in 1..13 :
          i < j /\ CollectedSections(collections[1])[i].importance_score
                      < CollectedSections(collections[1])[j].importance_score

\* the sections identify_sections makes of the text blocks before it scores
\* them, for every document of the collection whose PDF exists
SegmentedSections(collection) ==
    Flatten([d \in 1..Len(collection.documents) |->
                IF ~collection.documents[d].exists THEN <<>>
                ELSE potential_sections_loop(
                         extract_text_with_structure(collection.documents[d].pdf),
                         <<>>, None)])

\* C23: identify_sections discards every section whose score is below 1: each
\* section it returns, and each entry of extracted_sections, has a score of
\* at least 1, the score being 5 for each occurrence of a persona keyword in
\* the title, 1 for each occurrence in the joined content, 2 for a colon in
\* the title and 1 for more than 3 content elements.
C23_LowScoresDiscarded ==
    \A c \in DOMAIN outputs :
    \A collected \in {CollectedSections(collections[c])} :
        /\ \A k \in 1..Len(collected) :
              /\ collected[k].importance_score
                     = section_score(collected[k], collections[c].persona)
              /\ collected[k].importance_score >= 1
        /\ \A i \in 1..Len(outputs[c].extracted_sections) :
              ScoreOfEntry(outputs[c].extracted_sections[i], collected) >= 1

\* the output is written for a collection that lists notes.pdf: "Annual
\* Report" scores 0, "Opening Hours: Weekdays" 2 by its colon alone and
\* "Staff Room" 1 by its four content elements alone
C23_Witness ==
    /\ 1 \in DOMAIN outputs
    /\ \E d \in 1..Len(collections[1].documents) :
          collections[1].documents[d].filename = "notes.pdf"
    /\ \E segments \in {SegmentedSections(collections[1])} :
       \E k \in 1..Len(segments) :
          /\ segments[k].title = "Annual Report"
          /\ section_score(segments[k], collections[1].persona) = 0
    /\ \E collected \in {CollectedSections(collections[1])} :
          /\ \A k \in 1..Len(collected) : collected[k].title # "Annual Report"
          /\ \E k \in 1..Len(collected) :
                /\ collected[k].title = "Opening Hours: Weekdays"
                /\ collected[k].importance_score = 2
          /\ \E k \in 1..Len(collected) :
                /\ collected[k].title = "Staff Room"
                /\ Len(collected[k].content) = 4
                /\ collected[k].importance_score = 1
    /\ \E i \in 1..Len(outputs[1].extracted_sections) :
          outputs[1].extracted_sections[i].section_title = "Staff Room"

\* the position of the section of the entry among the collected sections,
\* which are in the order of the manifest and, within a document, in the
\* order identify_sections returned them
CollectedPosition(entry, collected) ==
    CHOOSE k \in UnderlyingSections(entry, collected) : TRUE

\* the position of the document in the manifest, 0 when it is not listed
ListedPosition(document, collection) ==
    LET listed == {d \in 1..Len(collection.documents) :
                      collection.documents[d].filename = document}
    IN  IF listed = {} THEN 0 ELSE CHOOSE d \in listed : TRUE

\* C28: the ranking of process_collection is made once, of the sections of all
\* the documents: no section left out scores more than a ranked one, and of
\* two ranked sections with the same score the one of the document listed
\* earlier comes first, two sections of one document staying in the order
\* they were collected in.
C28_TiesInDocumentOrder ==
    \A c \in DOMAIN outputs :
    \A entries \in {outputs[c].extracted_sections} :
    \A collected \in {CollectedSections(collections[c])} :
        /\ \A i \in 1..Len(entries) : \A k \in 1..Len(collected) :
              (\A j \in 1..Len(entries) : CollectedPosition(entries[j], collected) # k)
                  => collected[k].importance_score
                         <= ScoreOfEntry(entries[i], collected)
        /\ \A i, j \in 1..Len(entries) :
              (i < j /\ ScoreOfEntry(entries[i], collected)
                            = ScoreOfEntry(entries[j], collected))
                  => /\ ListedPosition(entries[i].document, collections[c])
                            <= ListedPosition(entries[j].document, collections[c])
                     /\ CollectedPosition(entries[i], collected)
                            < CollectedPosition(entries[j], collected)

\* mains.pdf is listed before starters.pdf; sections of the two documents
\* have the same score and the one of mains.pdf is ranked first, two sections
\* of mains.pdf have the same score, and a section of starters.pdf is
\* ranked above a section of mains.pdf that scores less
C28_Witness ==
    /\ 1 \in DOMAIN outputs
    /\ \E entries \in {outputs[1].extracted_sections} :
       \E collected \in {CollectedSections(collections[1])} :
          /\ 0 < ListedPosition("mains.pdf", collections[1])
          /\ ListedPosition("mains.pdf", collections[1])
                < ListedPosition("starters.pdf", collections[1])
          /\ \E i, j \in 1..Len(entries) :
                /\ i < j
                /\ entries[i].document = "mains.pdf" /\ entries[j].document = "starters.pdf"
                /\ ScoreOfEntry(entries[i], collected) = ScoreOfEntry(entries[j], collected)
          /\ \E i, j \in 1..Len(entries) :
                /\ i < j
                /\ entries[i].document = "mains.pdf" /\ entries[j].document = "mains.pdf"
                /\ ScoreOfEntry(entries[i], collected) = ScoreOfEntry(entries[j], collected)
          /\ \E i, j \in 1..Len(entries) :
                /\ i < j
                /\ entries[i].document = "starters.pdf" /\ entries[j].document = "mains.pdf"
                /\ ScoreOfEntry(entries[i], collected) > ScoreOfEntry(entries[j], collected)

-----------------------------------------------------------------------------
(* The refined text of long sections: texts of up to MaxRefined sentences, *)
(* one of them 200 characters long, two of 150 and one of 50, three of     *)
(* them of meat or fish, are refined for a Food Contractor.                *)

MaxRefined == 6

LongBuffetSentence == "Serve the vegetarian quinoa salad at the corporate buffet with fresh herbs and warm bread on long tables near the big windows of the hall so that every guest can reach the plates from any side at once"

LongDinnerSentence == "Offer vegan lentils and brown rice at the dinner in deep bowls with green leaves and lemon on the side tables along the garden wall until they all sit"

MenuCardSentence == "Print the menu on white cards and put them on every table by the door before the first guests arrive and keep a second pile of cards in the back rooms"

LunchTableSentence == "Set the lunch tables by noon in the red room today"

RefinedSentences == <<
    LunchTableSentence,
    "Grill the chicken with rice for 20 minutes",
    LongBuffetSentence,
    "Fry the bacon and the pork sausage for 10 minutes",
    MenuCardSentence,
    LongDinnerSentence,
    "Bake the fish with lemon for 30 minutes" >>

\* the sentences at the positions, as they are listed or in the opposite order
SentencesAt(positions, backwards) ==
    LET listed == SelectSeq(RefinedSentences,
                            LAMBDA x : \E i \in positions : RefinedSentences[i] = x)
    IN  IF backwards THEN [i \in 1..Len(listed) |-> listed[Len(listed) + 1 - i]]
        ELSE listed

RefineInit ==
    /\ \E positions \in SUBSET (1..Len(RefinedSentences)) : \E backwards \in BOOLEAN :
       \E t \in {BuffetTask, TripTask} :
          /\ Cardinality(positions) <= MaxRefined
          /\ persona_call = [op |-> "text", text |-> TextOf(SentencesAt(positions, backwards)),
                             persona |-> "Food Contractor", task |-> t]
    /\ persona_result = NoValue
    /\ OutlineIdle
    /\ ClassifyIdle
    /\ BatchIdle
    /\ CliIdle
    /\ TitleIdle

SpecRefine == RefineInit /\ [][RefineTextForPersona]_vars

\* the relevance score of a sentence of the call
ScoreInCall(sentence) ==
    relevance_score(sentence, persona_call.persona,
                    get_persona_keywords(persona_call.persona),
                    task_keywords(persona_call.task))

\* the sentences of the call that qualify: of 30 characters at least and with
\* a relevance score of 1 at least
QualifyingSentences ==
    SelectSeq(split_sentences(persona_call.text),
              LAMBDA x : Len(x) >= 30 /\ ScoreInCall(x) >= 1)

\* the sum of the lengths of the sentences
TotalLength(sentences) == SumSeq([i \in 1..Len(sentences) |-> Len(sentences[i])])

\* C24: the text refine_text_for_persona returns is made of qualifying
\* sentences in descending order of their scores; it never holds more than 4
\* sentences, the lengths of its sentences never add up to 500 characters or
\* more, and it is the empty string when no sentence qualifies.
C24_FourSentencesBelow500 ==
    Returned("refine_text_for_persona") =>
        \A taken \in {split_sentences(persona_result.value)} :
        \A qualifying \in {QualifyingSentences} :
            /\ Len(taken) <= 4
            /\ TotalLength(taken) < 500
            /\ \A i \in 1..Len(taken) : \E k \in 1..Len(qualifying) : qualifying[k] = taken[i]
            /\ \A i, j \in 1..Len(taken) :
                  i < j => ScoreInCall(taken[i]) >= ScoreInCall(taken[j])
            /\ qualifying = <<>> => persona_result.value = ""

\* four sentences are taken; the sentence of the menu cards qualifies and
\* scores more than one that is taken, but would have brought the text to 500
\* characters; a last qualifying sentence would fit and is the fifth
C24_Witness ==
    /\ Returned("refine_text_for_persona")
    /\ \E taken \in {split_sentences(persona_result.value)} :
       \E qualifying \in {QualifyingSentences} :
          /\ Len(taken) = 4
          /\ taken[1] = LongBuffetSentence /\ taken[2] = LongDinnerSentence
          /\ taken[3] = LunchTableSentence
          /\ \E k \in 1..Len(qualifying) : qualifying[k] = MenuCardSentence
          /\ ScoreInCall(MenuCardSentence) > ScoreInCall(LunchTableSentence)
          /\ Len(taken[1]) + Len(taken[2]) + Len(MenuCardSentence) = 500
          /\ \E k \in 1..Len(qualifying) :
                /\ \A i \in 1..4 : taken[i] # qualifying[k]
                /\ TotalLength(taken) + Len(qualifying[k]) < 500

\* the sentences of the text that mention meat or fish
MeatSentencesOf(text) == SelectSeq(split_sentences(text), HasNonVeg)

\* C25: for the persona "Food Contractor" and a task that mentions
\* "vegetarian", the text refine_text_for_persona returns holds at most 2
\* sentences that mention chicken, beef, pork, fish, meat, sausage, bacon or
\* shrimp, however many of them the text has.
C25_AtMostTwoMeatSentences ==
    ( /\ Returned("refine_text_for_persona")
      /\ persona_call.persona = "Food Contractor"
      /\ Contains(lower(persona_call.task), "vegetarian") )
    => Len(MeatSentencesOf(persona_result.value)) <= 2

\* a text with three sentences of meat or fish, all of which qualify, is
\* refined for the vegetarian buffet, and two of them are in the result
C25_Witness ==
    /\ Returned("refine_text_for_persona")
    /\ persona_call.persona = "Food Contractor"
    /\ persona_call.task = BuffetTask
    /\ Contains(lower(persona_call.task), "vegetarian")
    /\ Len(MeatSentencesOf(persona_call.text)) = 3
    /\ \A m \in {MeatSentencesOf(persona_call.text)} :
       \A i \in 1..3 : \E k \in 1..Len(QualifyingSentences) : QualifyingSentences[k] = m[i]
    /\ Len(MeatSentencesOf(persona_result.value)) = 2

-----------------------------------------------------------------------------
(* The span extractors on short and long runs: a page of up to MaxRuns     *)
(* runs whose trimmed texts have 2, 3, 200 and 201 characters.             *)

MaxRuns == 2

Run200 == "The survey covers the methods that were used in the field during the last ten years and compares their results on the shared public data sets that most of the groups have used since the first workshop"

RunSpans == {
    Span(" ab ", 12, "Helvetica", 0, 72, 100),
    Span(" abc ", 12, "Helvetica", 0, 72, 200),
    Span(Run200, 12, "Helvetica", 0, 72, 300),
    Span(" " \o Run200 \o "s ", 12, "Helvetica", 0, 72, 400),
    Span("Summary", 14, "Helvetica-Bold", 0, 72, 500) }

RunsInit ==
    /\ \E n \in 0..MaxRuns : \E s1 \in [1..n -> RunSpans] : \E o \in ReaderOutcomes :
          /\ DistinctSpans(s1)
          /\ doc = Document(o, s1, <<>>)
    /\ extractor = "none"
    /\ pc = "start"
    /\ elements = <<>>
    /\ result = NoResult
    /\ ClassifyIdle
    /\ PersonaIdle
    /\ BatchIdle
    /\ CliIdle
    /\ TitleIdle

SpecRuns == RunsInit /\ [][Next]_vars

\* the span reader opened the document and read every page
SpanReaderSucceeded ==
    doc.open_ok /\ \A p \in 1..Len(doc.pages) : doc.pages[p].ok

\* C26: every TextElement a span extractor produces (_extract_text_fast and
\* _extract_text_elements) has a trimmed text of 3 to 200 characters; a run
\* that is shorter than 3 or longer than 200 characters gives no element.
C26_ElementTextWithin3And200 ==
    (pc = "done" /\ SpanReaderSucceeded)
        => \A i \in 1..Len(elements) :
              /\ Len(strip(elements[i].text)) >= 3
              /\ Len(strip(elements[i].text)) <= 200

-----------------------------------------------------------------------------
(* The fallback of the full extractor.                                     *)

\* the elements the span reader made of the pages before the one it failed on
ElementsReadBeforeFailure ==
    Flatten([p \in 1..(FirstBadPage(doc) - 1) |-> FullPageElements(doc.pages[p], p)])

\* C27: when the span reader of _extract_text_elements fails part-way through
\* the document and the fallback is used, the elements returned are those of
\* one backend only: no page gives its elements twice, once by the span reader
\* and once by the fallback.
C27_OneBackendOnly ==
    (Done("full") /\ doc.open_ok /\ FirstBadPage(doc) > 0)
        => \/ elements = extract_with_pdfplumber(doc)
           \/ elements = ElementsReadBeforeFailure

-----------------------------------------------------------------------------
(* The size thresholds of Challenge_1a, computed on their own: lists of up *)
(* to MaxSizes font sizes of 12 and 16 points.                             *)

MaxSizes == 11

ThresholdsInit ==
    /\ \E n \in 0..MaxSizes : \E font_sizes \in [1..n -> {12, 16}] :
          classify_call = [font_sizes |-> font_sizes,
                           avg_size   |-> [num |-> SumSeq(font_sizes), den |-> n]]
    /\ classify_result = NoLevel
    /\ OutlineIdle
    /\ PersonaIdle
    /\ BatchIdle
    /\ CliIdle
    /\ TitleIdle

\* lines 225-228 of _find_headings_fast
ComputeSizeThresholds ==
    /\ classify_result = NoLevel
    /\ classify_result' =
          [classifier |-> "size_thresholds",
           value |-> size_thresholds(classify_call.font_sizes, classify_call.avg_size)]
    /\ UNCHANGED <<classify_call, outline_vars, persona_vars, batch_vars, cli_vars, title_vars>>

SpecThresholds == ThresholdsInit /\ [][ComputeSizeThresholds]_vars

\* v is the entry at the index, counted from 0, of the sizes in ascending
\* order: at most index sizes are below v and more than index are v or below
IsAtSortedIndex(v, font_sizes, index) ==
    /\ \E i \in 1..Len(font_sizes) : font_sizes[i] = v
    /\ Cardinality({i \in 1..Len(font_sizes) : font_sizes[i] < v}) <= index
    /\ Cardinality({i \in 1..Len(font_sizes) : font_sizes[i] <= v}) > index

\* C29: for N >= 1 font sizes the thresholds of Challenge_1a's classifier are
\* the entries at the indices floor(0.75 * N) and floor(0.9 * N) of the sizes
\* in ascending order, which are sizes of the list and no interpolation; both
\* indices are below N, and the 90th threshold is not below the 75th.
C29_ThresholdsAtFloorIndex ==
    (classify_result.classifier = "size_thresholds" /\ classify_call.font_sizes # <<>>)
        => \A sizes \in {classify_call.font_sizes} :
              /\ (3 * Len(sizes)) \div 4 < Len(sizes)
              /\ (9 * Len(sizes)) \div 10 < Len(sizes)
              /\ IsAtSortedIndex(classify_result.value.size_75th, sizes,
                                 (3 * Len(sizes)) \div 4)
              /\ IsAtSortedIndex(classify_result.value.size_90th, sizes,
                                 (9 * Len(sizes)) \div 10)
              /\ classify_result.value.size_90th >= classify_result.value.size_75th

\* eleven sizes, two of them 16 and one of these first in the list: the 75th
\* threshold is 12, and the 90th is the entry at index 9 of the sorted
\* sizes, which is 16 and not the last entry
C29_Witness ==
    /\ classify_result.classifier = "size_thresholds"
    /\ Len(classify_call.font_sizes) = 11
    /\ Cardinality({i \in 1..11 : classify_call.font_sizes[i] = 16}) = 2
    /\ classify_call.font_sizes[1] = 16
    /\ classify_result.value.size_75th = 12
    /\ classify_result.value.size_90th = 16

-----------------------------------------------------------------------------
(* The period rule of Challenge_1a: a page of up to MaxItems spans, among  *)
(* them numbered items and a sentence that end in a period.                *)

MaxItems == 3

ItemSpans == {
    Span("Machine Learning Survey", 24, "Helvetica-Bold", 0, 72, 50),
    Span("1. Scope of the work.", 16, "Helvetica-Bold", 0, 72, 200),
    Span("4. Methods and materials.", 16, "Helvetica-Bold", 0, 72, 300),
    Span("12. Results and discussion.", 16, "Helvetica-Bold", 0, 72, 400),
    Span("5. Related Work on Surveys", 16, "Helvetica-Bold", 0, 72, 500),
    Span("This is body text of the document.", 12, "Helvetica", 0, 72, 600) }

ItemsInit ==
    /\ \E n \in 0..MaxItems : \E s1 \in [1..n -> ItemSpans] :
          /\ DistinctSpans(s1)
          /\ doc = Document(<<TRUE, TRUE, TRUE, TRUE>>, s1, <<>>)
    /\ extractor = "none"
    /\ pc = "start"
    /\ elements = <<>>
    /\ result = NoResult
    /\ ClassifyIdle
    /\ PersonaIdle
    /\ BatchIdle
    /\ CliIdle
    /\ TitleIdle

SpecItems == ItemsInit /\ [][Next]_vars

\* the text starts a numbered list item: digits followed by a dot
StartsNumberedItem(text) ==
    \E k \in 1..(Len(text) - 1) :
        /\ \A i \in 1..k : Char(text, i) \in DigitChars
        /\ Char(text, k + 1) = "."

\* C30: in _find_headings_fast of Challenge_1a the period rule rejects an
\* element whose text ends in a period unless the text starts a numbered list
\* item (digits followed by a dot, whatever the number), which it does not
\* reject; so every outline entry that ends in a period starts with the
\* prefix of a numbered item.
C30_PeriodRuleSparesNumberedItems ==
    Done("fast1a") =>
        /\ \A i \in 1..Len(elements) :
              \A text \in {strip(elements[i].text)} :
                 endswith(text, ".")
                     => (RejectedByPeriodRule(text) <=> ~StartsNumberedItem(text))
        /\ \A k \in 1..Len(result.outline) :
              endswith(result.outline[k].text, ".")
                  => StartsNumberedItem(result.outline[k].text)

=============================================================================
